---- MODULE Spec2Model ----
(***************************************************************************)
(* Haven relay: the hub (relay/internal/hub), the session endpoint         *)
(* (relay/internal/client), the in-memory room (relay/internal/room) and   *)
(* the PostgreSQL stores with their cleanup job, as a state machine.       *)
(*                                                                         *)
(* Every hub method that runs under h.mu.Lock() is one atomic action.  The *)
(* reply a handler of cmd/haven/main.go sends after the hub call returns   *)
(* is a separate step of the same reader (HandlerReply), because other     *)
(* goroutines run between the two.  A Go panic (send on, or close of, a    *)
(* closed channel) in a goroutine without recover ends the process: it is  *)
(* recorded in `panicked`, after which no action is enabled.               *)
(***************************************************************************)
EXTENDS Integers, Sequences, FiniteSets, Bags, TLC

\* ------------------------------------------------------------------ bounds
MaxClients == 2        \* connections accepted by serveWs over the run
MaxUsers == 3          \* rows the users table hands ids to over the run
MaxRooms == 2          \* rows the rooms table hands ids to over the run
MaxPending == 2        \* store goroutines (go func) in flight at once
MaxFrames == 2         \* frames ReadPump reads from one connection over the run
sendBufferSize == 2    \* capacity of Client.Send (256 in the source)

Clients == 1..MaxClients
UserIDs == 1..MaxUsers
RoomIDs == 1..MaxRooms

NoClient == 0          \* absent map entry / no connection
NoUserID == 0          \* c.UserID == ""

ValidUsernames == {"alice", "bob"}
InputUsernames == ValidUsernames \cup {"al"}       \* "al" is too short
Fingerprints == {"", "fpA", "fpX"}
RecoveryWords == {"apple-arrow", "badge-beach"}    \* phrases GenerateRecoveryCode may draw
InputRecovery == {""} \cup RecoveryWords

\* usernameRegex ^[a-zA-Z0-9_-]{3,20}$ on the usernames of the model
usernameRegex(u) == u \in ValidUsernames

\* auth.HashValue: hex SHA-256, one-way and collision-free on the model's values
HashValue(v) == <<"sha256", v>>
EmptyHash == <<>>      \* the hash column of a value that was never hashed ("")

\* --------------------------------------------------------------- envelopes
\* protocol.Envelope after json.Marshal: the type tag and the payload fields
\* the hub fills in (user id, username, room id, a code or action, a phrase).
\* The failure reply of a room handler carries the hub.Error; the model keeps
\* the error's code.
\* A message envelope also carries message_id (mid) and timestamp (ts), a
\* room_history_response the messages and has_more.
Env(t, uid, name, room, info, phrase) ==
    [type |-> t, uid |-> uid, name |-> name, room |-> room, info |-> info,
     phrase |-> phrase, mid |-> 0, ts |-> 0, messages |-> <<>>,
     has_more |-> FALSE]
NoEnv == Env("none", 0, "", 0, "", "")
Kicked ==
    Env("kicked", 0, "", 0, "The account owner has logged in from another device", "")
RoomCreated(room) == Env("room_created", 0, "", room, "ok", "")
RoomCreatedError(code) == Env("room_created", 0, "", 0, code, "")
RoomJoined(room) == Env("room_joined", 0, "", room, "ok", "")
RoomJoinedError(room, code) == Env("room_joined", 0, "", room, code, "")
RoomLeft(room) == Env("room_left", 0, "", room, "ok", "")
RoomLeftError(room, code) == Env("room_left", 0, "", room, code, "")
RoomMembers(room, action, uid, name) == Env("room_members", uid, name, room, action, "")
UserJoined(uid, name) == Env("user_joined", uid, name, 0, "", "")
UserLeft(uid, name) == Env("user_left", uid, name, 0, "", "")
\* RegisterAckPayload: info is the error code of a failure, "new" or "login"
\* for a success; phrase is the plaintext recovery code (new users only)
RegisterAckError(code) == Env("register_ack", 0, "", 0, code, "")
RegisterAckOK(uid, name, isNew, phrase) ==
    Env("register_ack", uid, name, 0, IF isNew THEN "new" ELSE "login", phrase)

\* ErrorPayload{Code, Message, Target}: the code, and the target username
\* SendErrorWithTarget adds
ErrorEnv(code, target) == Env("error", 0, target, 0, code, "")
\* IncomingRoomMessage{MessageID, RoomID, From, FromID, Content, Timestamp}
RoomMessage(mid, ts, room, fromID, from, content) ==
    [Env("room_message", fromID, from, room, content, "") EXCEPT !.mid = mid, !.ts = ts]
\* IncomingDirectMessage{MessageID, From, FromID, Content, Timestamp}; the
\* fresh uuid and the wall-clock timestamp of a direct message are not tracked
DirectMessage(fromID, from, content) ==
    Env("direct_message", fromID, from, 0, content, "")

VARIABLES
    clients,      \* h.clients: the connection ids in the sessions index
    usernames,    \* h.usernames: username -> connection id (NoClient = absent)
    userIDs,      \* h.userIDs: user id -> connection id (NoClient = absent)
    rooms,        \* h.rooms: room id -> in-memory room (NoRoom = absent)
    Username,     \* Client.Username per connection ("" until registered)
    UserID,       \* Client.UserID per connection (NoUserID until registered)
    crooms,       \* Client.rooms per connection
    Send,         \* Client.Send: the buffered outbound channel's content
    closed,       \* Client.Send has been closed
    reader,       \* ReadPump of the connection: "new", "open", "exited"
    reply,        \* the envelope the running handler is about to send back
    users,        \* users table: user id -> row (NoRow = absent)
    roomRows,     \* rooms table: room id -> row (NoRow = absent)
    memberRows,   \* room_members table: set of <<room id, user id>>
    pending,      \* store goroutines started with `go func()` and not yet run
    nextUserID,   \* next id the users table assigns
    nextRoomID,   \* next id the rooms table assigns
    cleanupPC,    \* position of CleanupJob.run inside RunAll
    loaded,       \* main has called LoadRooms and started serving
    frames,       \* frames the connection's ReadPump has handed to the handler
    evicted,      \* history: who kicked the connection, and under which name
    panicked,     \* a goroutine panicked: the process is gone
    messages,     \* room_messages table: the rows in the order they were inserted
    accepted,     \* room messages SendRoomMessage has accepted so far (the clock)
    call,         \* the hub call the connection's handler is in the middle of,
                  \* with the arguments of the store query it is about to make
    announced,    \* history: the user ids a connection's channel has accepted a
                  \* UserJoined for and no UserLeft since
    main,         \* func main: "serving" inside http.ListenAndServe, "exited"
                  \* once log.Fatal has ended the process
    mu            \* h.mu, Room.mu and Client.mu seen from each goroutine: the
                  \* mutexes it holds, the rest of the code path it is on, and
                  \* whether it is blocked in a Lock() call

vars == <<clients, usernames, userIDs, rooms, Username, UserID, crooms, Send,
          closed, reader, reply, users, roomRows, memberRows, pending,
          nextUserID, nextRoomID, cleanupPC, loaded, frames, evicted, panicked,
          messages, accepted, call, announced, main, mu>>

\* the message store, the calls in flight, the announcements and main
msgVars == <<messages, accepted, call, announced, main, mu>>

\* what the cleanup job's store calls leave alone besides the tables
jobVars == <<accepted, call, announced, main, mu>>

NoRoom == [present |-> FALSE]
NoRow == [present |-> FALSE]
NotEvicted == [by |-> NoClient, name |-> ""]
\* the goroutines that take the hub's locks: the ReadPump of each connection
\* and main, which loads the rooms and runs the cleanup ticker
MainGoroutine == 0
Goroutines == Clients \cup {MainGoroutine}

\* a goroutine outside every hub operation
NoPath == [held |-> {}, path |-> <<>>, waiting |-> FALSE]
NoLocks == [g \in Goroutines |-> NoPath]

\* no hub call in flight on the connection
NoCall ==
    [op |-> "none", to |-> NoClient, room |-> 0, limit |-> 0, before |-> 0,
     env |-> NoEnv]

\* ------------------------------------------------------------ session endpoint
\* Client.SendMessage as it would be with a plain `c.Send <- data` on a channel
\* that always has room
SendMessage_Unbounded(q, env) == Append(q, env)

\* Client.SendMessage on an open channel: select { case c.Send <- data: default: }
SendMessage(q, env) == IF Len(q) < sendBufferSize THEN Append(q, env) ELSE q

\* broadcastLocked: every client of h.clients except excludeID whose Username
\* is set gets the envelope; `cs` and `names` are the index and the usernames
\* at the time of the call
BroadcastTargets(cs, names, excludeID) ==
    {id \in cs : id /= excludeID /\ names[id] /= ""}

broadcastLocked(q, cs, names, excludeID, env) ==
    [id \in Clients |->
        IF id \in BroadcastTargets(cs, names, excludeID)
        THEN SendMessage(q[id], env) ELSE q[id]]

\* a send on a closed channel panics, also inside select
BroadcastPanics(cs, names, excludeID) ==
    \E id \in BroadcastTargets(cs, names, excludeID) : closed[id]

\* ------------------------------------------------------------------ stores
\* UserStore.GetByUsername: the id of the row with that username, or NoUserID
GetByUsername(u) ==
    IF \E id \in UserIDs : users[id].present /\ users[id].username = u
    THEN CHOOSE id \in UserIDs : users[id].present /\ users[id].username = u
    ELSE NoUserID

UserRow(u, fph, rch) ==
    [present |-> TRUE, username |-> u, fingerprint_hash |-> fph,
     recovery_code_hash |-> rch, stale |-> FALSE]

\* goroutines started with `go func()`: a bag of store calls not yet run
Spawn(op) == pending (+) SetToBag({op})
CanSpawn == BagCardinality(pending) < MaxPending

\* ------------------------------------------------------------------- startup
\* no room message stored or accepted, every handler between two frames,
\* main on its way to http.ListenAndServe
NoMessages ==
    /\ messages = <<>>
    /\ accepted = 0
    /\ call = [c \in Clients |-> NoCall]
    /\ announced = [c \in Clients |-> {}]
    /\ main = "serving"
    /\ mu = NoLocks

Init ==
    /\ clients = {}
    /\ usernames = [u \in ValidUsernames |-> NoClient]
    /\ userIDs = [id \in UserIDs |-> NoClient]
    /\ rooms = [r \in RoomIDs |-> NoRoom]
    /\ Username = [c \in Clients |-> ""]
    /\ UserID = [c \in Clients |-> NoUserID]
    /\ crooms = [c \in Clients |-> {}]
    /\ Send = [c \in Clients |-> <<>>]
    /\ closed = [c \in Clients |-> FALSE]
    /\ reader = [c \in Clients |-> "new"]
    /\ reply = [c \in Clients |-> NoEnv]
    /\ users = [id \in UserIDs |-> NoRow]
    /\ roomRows = [r \in RoomIDs |-> NoRow]
    /\ memberRows = {}
    /\ pending = EmptyBag
    /\ nextUserID = 1
    /\ nextRoomID = 1
    /\ cleanupPC = "idle"
    /\ loaded = FALSE
    /\ frames = [c \in Clients |-> 0]
    /\ evicted = [c \in Clients |-> NotEvicted]
    /\ panicked = FALSE
    /\ NoMessages

\* the process is serving: LoadRooms has returned, nothing has panicked and
\* main has not left http.ListenAndServe
Serving == loaded /\ ~panicked /\ main = "serving"

\* the reader of c is between two frames (blocked in ReadMessage)
Idle(c) == reader[c] = "open" /\ reply[c] = NoEnv /\ call[c] = NoCall

\* ReadMessage returns the next frame and ReadPump calls c.Handler
ReadFrame(c) ==
    /\ Idle(c)
    /\ frames[c] < MaxFrames
    /\ frames' = [frames EXCEPT ![c] = @ + 1]

\* ---------------------------------------------------------- attach / detach
\* serveWs: a fresh connection id, h.AddClient(c), then the two pumps start
AddClient(c) ==
    /\ Serving
    /\ reader[c] = "new"
    /\ \A d \in Clients : d < c => reader[d] /= "new"
    /\ clients' = clients \cup {c}
    /\ reader' = [reader EXCEPT ![c] = "open"]
    /\ UNCHANGED <<frames, usernames, userIDs, rooms, Username, UserID, crooms, Send,
                   closed, reply, users, roomRows, memberRows, pending,
                   nextUserID, nextRoomID, cleanupPC, loaded, evicted, panicked>>

\* RemoveClient as it would be if a disconnect also took the user out of
\* every room
RemoveClient_LeavingRooms(c) ==
    /\ Serving
    /\ Idle(c)
    /\ Send' = IF Username[c] /= ""
               THEN broadcastLocked(Send, clients, Username, c,
                        UserLeft(UserID[c], Username[c]))
               ELSE Send
    /\ usernames' = IF Username[c] /= ""
                    THEN [usernames EXCEPT ![Username[c]] = NoClient]
                    ELSE usernames
    /\ userIDs' = IF UserID[c] /= NoUserID
                  THEN [userIDs EXCEPT ![UserID[c]] = NoClient]
                  ELSE userIDs
    /\ rooms' = [r \in RoomIDs |->
                    IF rooms[r].present
                    THEN [rooms[r] EXCEPT !.members =
                            @ \ {IF UserID[c] /= NoUserID THEN UserID[c] ELSE 0 - c}]
                    ELSE rooms[r]]
    /\ clients' = clients \ {c}
    /\ closed' = [closed EXCEPT ![c] = TRUE]
    /\ panicked' = (closed[c]
                    \/ (Username[c] /= "" /\ BroadcastPanics(clients, Username, c)))
    /\ reader' = [reader EXCEPT ![c] = "exited"]
    /\ UNCHANGED <<frames, Username, UserID, crooms, reply, users, roomRows,
                   memberRows, pending, nextUserID, nextRoomID, cleanupPC,
                   loaded, evicted>>

\* ReadPump's deferred OnClose: h.RemoveClient(c), whose last statement is
\* c.Close(), i.e. close(c.Send); closing a closed channel panics
RemoveClient(c) ==
    /\ Serving
    /\ Idle(c)
    /\ Send' = IF Username[c] /= ""
               THEN broadcastLocked(Send, clients, Username, c,
                        UserLeft(UserID[c], Username[c]))
               ELSE Send
    /\ usernames' = IF Username[c] /= ""
                    THEN [usernames EXCEPT ![Username[c]] = NoClient]
                    ELSE usernames
    /\ userIDs' = IF UserID[c] /= NoUserID
                  THEN [userIDs EXCEPT ![UserID[c]] = NoClient]
                  ELSE userIDs
    /\ clients' = clients \ {c}
    /\ closed' = [closed EXCEPT ![c] = TRUE]
    /\ panicked' = (closed[c]
                    \/ (Username[c] /= "" /\ BroadcastPanics(clients, Username, c)))
    /\ reader' = [reader EXCEPT ![c] = "exited"]
    /\ UNCHANGED <<frames, rooms, Username, UserID, crooms, reply, users, roomRows,
                   memberRows, pending, nextUserID, nextRoomID, cleanupPC,
                   loaded, evicted>>

\* WritePump: one envelope leaves the channel for the socket
WritePump(c) ==
    /\ Serving
    /\ reader[c] /= "new"
    /\ Send[c] /= <<>>
    /\ Send' = [Send EXCEPT ![c] = Tail(Send[c])]
    /\ UNCHANGED <<frames, clients, usernames, userIDs, rooms, Username, UserID, crooms,
                   closed, reader, reply, users, roomRows, memberRows, pending,
                   nextUserID, nextRoomID, cleanupPC, loaded, evicted, panicked>>

\* the handler's c.SendMessage(...) after the hub call has returned
HandlerReply(c) ==
    /\ Serving
    /\ reader[c] = "open"
    /\ reply[c] /= NoEnv
    /\ reply' = [reply EXCEPT ![c] = NoEnv]
    /\ panicked' = closed[c]
    /\ Send' = IF closed[c] THEN Send
               ELSE [Send EXCEPT ![c] = SendMessage(Send[c], reply[c])]
    /\ UNCHANGED <<frames, clients, usernames, userIDs, rooms, Username, UserID, crooms,
                   closed, reader, users, roomRows, memberRows, pending,
                   nextUserID, nextRoomID, cleanupPC, loaded, evicted>>

\* ------------------------------------------------------------- registration
\* RegisterBranch as it would be without the `fingerprint != ""` test of the
\* fingerprint comparison
RegisterBranch_EmptyFingerprintMatches(username, fingerprint, recoveryCode, lookupOK, writeOK) ==
    LET fingerprintHash == IF fingerprint /= "" THEN HashValue(fingerprint)
                           ELSE EmptyHash
        id == GetByUsername(username)
    IN  IF ~usernameRegex(username) THEN "INVALID_USERNAME"
        ELSE IF ~lookupOK THEN "INVALID_MESSAGE"
        ELSE IF id /= NoUserID
        THEN IF users[id].fingerprint_hash = fingerprintHash
             THEN "login"
             ELSE IF recoveryCode /= ""
             THEN IF users[id].recovery_code_hash = HashValue(recoveryCode)
                  THEN "recover"
                  ELSE "INVALID_RECOVERY"
             ELSE "RECOVERY_REQUIRED"
        ELSE IF ~writeOK THEN "INVALID_MESSAGE"
        ELSE "new"

\* The branch RegisterUser takes (lines 715-799): an error code, or "login"
\* (fingerprint matches), "recover" (recovery code matches), "new".
\* lookupOK: GetByUsername returns without error; writeOK: the store's write
\* (Create, UpdateFingerprint) goes through.
RegisterBranch(username, fingerprint, recoveryCode, lookupOK, writeOK) ==
    LET fingerprintHash == IF fingerprint /= "" THEN HashValue(fingerprint)
                           ELSE EmptyHash
        id == GetByUsername(username)
    IN  IF ~usernameRegex(username) THEN "INVALID_USERNAME"
        ELSE IF ~lookupOK THEN "INVALID_MESSAGE"
        ELSE IF id /= NoUserID
        THEN IF fingerprint /= "" /\ users[id].fingerprint_hash = fingerprintHash
             THEN "login"
             ELSE IF recoveryCode /= ""
             THEN IF users[id].recovery_code_hash = HashValue(recoveryCode)
                  THEN "recover"
                  ELSE "INVALID_RECOVERY"
             ELSE "RECOVERY_REQUIRED"
        ELSE IF ~writeOK THEN "INVALID_MESSAGE"
        ELSE "new"

\* loginExistingUserLocked: the connection that is kicked, or NoClient
Imposter(c, username) ==
    IF /\ usernames[username] /= NoClient
       /\ usernames[username] /= c
       /\ usernames[username] \in clients
    THEN usernames[username]
    ELSE NoClient

\* the kick as it would be if the Kicked envelope were never sent
KickImposter_Unsent(q, imposter) == q

\* loginExistingUserLocked, "Kick the imposter": imposter.SendMessage(TypeKicked)
\* on the queues `q`; its result is discarded (`_ =`)
KickImposter(q, imposter) ==
    [q EXCEPT ![imposter] = SendMessage(q[imposter], Kicked)]

\* loginExistingUserLocked as it would be if a returning user were answered
\* like a new one
loginExistingUserLocked_AsNewUser(c, username, id) ==
    LET imposter == Imposter(c, username)
        kick == imposter /= NoClient
        cs == clients \ {imposter}
        names == [Username EXCEPT ![c] = username]
        q1 == IF kick /\ ~closed[imposter]
              THEN KickImposter(Send, imposter)
              ELSE Send
        ids1 == IF kick /\ UserID[imposter] /= NoUserID
                THEN [userIDs EXCEPT ![UserID[imposter]] = NoClient]
                ELSE userIDs
    IN  /\ CanSpawn
        /\ closed' = IF kick THEN [closed EXCEPT ![imposter] = TRUE] ELSE closed
        /\ clients' = cs
        /\ evicted' = IF kick
                      THEN [evicted EXCEPT ![imposter] = [by |-> c, name |-> username]]
                      ELSE evicted
        /\ UserID' = [UserID EXCEPT ![c] = id]
        /\ Username' = names
        /\ usernames' = [usernames EXCEPT ![username] = c]
        /\ userIDs' = [ids1 EXCEPT ![id] = c]
        /\ pending' = Spawn([op |-> "UpdateLastSeen", room |-> 0, user |-> id])
        /\ Send' = broadcastLocked(q1, cs, names, c, UserJoined(id, username))
        /\ panicked' = ((kick /\ closed[imposter])
                        \/ BroadcastPanics(cs, names, c))
        /\ reply' = [reply EXCEPT ![c] = RegisterAckOK(id, username, TRUE, "apple-arrow")]

\* loginExistingUserLocked(c, username, userData) with userData.ID = id
loginExistingUserLocked(c, username, id) ==
    LET imposter == Imposter(c, username)
        kick == imposter /= NoClient
        cs == clients \ {imposter}
        names == [Username EXCEPT ![c] = username]
        q1 == IF kick /\ ~closed[imposter]
              THEN KickImposter(Send, imposter)
              ELSE Send
        ids1 == IF kick /\ UserID[imposter] /= NoUserID
                THEN [userIDs EXCEPT ![UserID[imposter]] = NoClient]
                ELSE userIDs
    IN  /\ CanSpawn
        /\ closed' = IF kick THEN [closed EXCEPT ![imposter] = TRUE] ELSE closed
        /\ clients' = cs
        /\ evicted' = IF kick
                      THEN [evicted EXCEPT ![imposter] = [by |-> c, name |-> username]]
                      ELSE evicted
        /\ UserID' = [UserID EXCEPT ![c] = id]
        /\ Username' = names
        /\ usernames' = [usernames EXCEPT ![username] = c]
        /\ userIDs' = [ids1 EXCEPT ![id] = c]
        /\ pending' = Spawn([op |-> "UpdateLastSeen", room |-> 0, user |-> id])
        /\ Send' = broadcastLocked(q1, cs, names, c, UserJoined(id, username))
        /\ panicked' = ((kick /\ closed[imposter])
                        \/ BroadcastPanics(cs, names, c))
        /\ reply' = [reply EXCEPT ![c] = RegisterAckOK(id, username, FALSE, "")]

\* the new-user branch (lines 769-798): Create, bind, broadcast
registerNewUser(c, username, fingerprint, phrase) ==
    LET id == nextUserID
        names == [Username EXCEPT ![c] = username]
        fingerprintHash == IF fingerprint /= "" THEN HashValue(fingerprint)
                           ELSE EmptyHash
    IN  /\ nextUserID <= MaxUsers
        /\ users' = [users EXCEPT ![id] =
                        UserRow(username, fingerprintHash, HashValue(phrase))]
        /\ nextUserID' = nextUserID + 1
        /\ UserID' = [UserID EXCEPT ![c] = id]
        /\ Username' = names
        /\ usernames' = [usernames EXCEPT ![username] = c]
        /\ userIDs' = [userIDs EXCEPT ![id] = c]
        /\ Send' = broadcastLocked(Send, clients, names, c, UserJoined(id, username))
        /\ panicked' = BroadcastPanics(clients, names, c)
        /\ reply' = [reply EXCEPT ![c] = RegisterAckOK(id, username, TRUE, phrase)]
        /\ UNCHANGED <<clients, closed, evicted, pending>>

\* RegisterUser as it would be if it bound the username to the session
\* before it validated the credentials
RegisterUser_BindsBeforeChecks(c, username, fingerprint, recoveryCode, lookupOK, writeOK, phrase) ==
    LET branch == RegisterBranch(username, fingerprint, recoveryCode, lookupOK, writeOK)
        id == GetByUsername(username)
    IN  /\ Serving
        /\ ReadFrame(c)
        /\ CASE branch = "login" ->
                 /\ loginExistingUserLocked(c, username, id)
                 /\ UNCHANGED <<users, nextUserID>>
            [] branch = "recover" ->
                 /\ loginExistingUserLocked(c, username, id)
                 /\ users' = IF fingerprint /= "" /\ writeOK
                             THEN [users EXCEPT ![id].fingerprint_hash = HashValue(fingerprint),
                                                ![id].stale = FALSE]
                             ELSE users
                 /\ UNCHANGED nextUserID
            [] branch = "new" ->
                 registerNewUser(c, username, fingerprint, phrase)
            [] OTHER ->
                 /\ reply' = [reply EXCEPT ![c] = RegisterAckError(branch)]
                 /\ Username' = [Username EXCEPT ![c] = username]
                 /\ UNCHANGED <<clients, usernames, userIDs, UserID, Send,
                                closed, users, pending, nextUserID, evicted, panicked>>
        /\ UNCHANGED <<rooms, crooms, reader, roomRows, memberRows, nextRoomID,
                       cleanupPC, loaded>>

\* handleRegister up to the return of h.RegisterUser; the register_ack that
\* handleRegister sends next is left in reply[c] for HandlerReply
RegisterUser(c, username, fingerprint, recoveryCode, lookupOK, writeOK, phrase) ==
    LET branch == RegisterBranch(username, fingerprint, recoveryCode, lookupOK, writeOK)
        id == GetByUsername(username)
    IN  /\ Serving
        /\ ReadFrame(c)
        /\ CASE branch = "login" ->
                 /\ loginExistingUserLocked(c, username, id)
                 /\ UNCHANGED <<users, nextUserID>>
            [] branch = "recover" ->
                 /\ loginExistingUserLocked(c, username, id)
                 /\ users' = IF fingerprint /= "" /\ writeOK
                             THEN [users EXCEPT ![id].fingerprint_hash = HashValue(fingerprint),
                                                ![id].stale = FALSE]
                             ELSE users
                 /\ UNCHANGED nextUserID
            [] branch = "new" ->
                 registerNewUser(c, username, fingerprint, phrase)
            [] OTHER ->
                 /\ reply' = [reply EXCEPT ![c] = RegisterAckError(branch)]
                 /\ UNCHANGED <<clients, usernames, userIDs, Username, UserID, Send,
                                closed, users, pending, nextUserID, evicted, panicked>>
        /\ UNCHANGED <<rooms, crooms, reader, roomRows, memberRows, nextRoomID,
                       cleanupPC, loaded>>

\* `c.UserID = c.ID` (no user store): the connection id in the place of a
\* user id, kept apart from the users table's ids by its sign
ConnUserID(c) == 0 - c

\* the keys of h.userIDs when the hub has no user store
ConnUserIDs == {ConnUserID(c) : c \in Clients}

\* handleRegister up to the return of h.RegisterUser on a hub without user
\* store (h.userStore == nil): the username check (lines 715-717) and the
\* fallback of lines 801-818; fingerprint and recovery code are not looked at
RegisterUserNoStore(c, username) ==
    LET names == [Username EXCEPT ![c] = username]
        code == IF ~usernameRegex(username) THEN "INVALID_USERNAME"
                ELSE IF usernames[username] /= NoClient THEN "USERNAME_IN_USE"
                ELSE "ok"
    IN  /\ Serving
        /\ ReadFrame(c)
        /\ IF code /= "ok"
           THEN /\ reply' = [reply EXCEPT ![c] = RegisterAckError(code)]
                /\ UNCHANGED <<usernames, userIDs, Username, UserID, Send, panicked>>
           ELSE /\ UserID' = [UserID EXCEPT ![c] = ConnUserID(c)]
                /\ Username' = names
                /\ usernames' = [usernames EXCEPT ![username] = c]
                /\ userIDs' = [userIDs EXCEPT ![ConnUserID(c)] = c]
                /\ Send' = broadcastLocked(Send, clients, names, c,
                               UserJoined(ConnUserID(c), username))
                /\ panicked' = BroadcastPanics(clients, names, c)
                /\ reply' = [reply EXCEPT ![c] =
                                RegisterAckOK(ConnUserID(c), username, FALSE, "")]
        /\ UNCHANGED <<clients, closed, users, pending, nextUserID, evicted, rooms,
                       crooms, reader, roomRows, memberRows, nextRoomID,
                       cleanupPC, loaded>>

\* ----------------------------------------------------------------- rooms
RoomNames == {"", "general"}
\* roomNameRegex ^.{1,50}$ on the room names of the model
roomNameRegex(name) == name /= ""

\* `memberID := c.UserID; if memberID == "" { memberID = c.ID }`: a connection
\* id used as a user id is kept apart from the users table's ids by its sign
MemberID(c) == IF UserID[c] /= NoUserID THEN UserID[c] ELSE 0 - c

\* room.New: the creator auto-joins
NewRoom(creatorID, isPublic) ==
    [present |-> TRUE, CreatorID |-> creatorID, IsPublic |-> isPublic,
     members |-> {creatorID}]

\* the sends of a loop over r.MemberList() that go to connection id: one for
\* every member whose user id h.userIDs maps to it, if it is in h.clients
RoomSends(r, id) ==
    IF id \in clients
    THEN Cardinality({m \in r.members : m \in UserIDs /\ userIDs[m] = id})
    ELSE 0

RECURSIVE SendTimes(_, _, _)
SendTimes(q, env, n) ==
    IF n = 0 THEN q ELSE SendTimes(SendMessage(q, env), env, n - 1)

\* broadcastToRoomLocked: the live connections of the members of `r`, looked
\* up through h.userIDs, except excludeConnID
RoomTargets(r, excludeConnID) ==
    {id \in clients :
        /\ id /= excludeConnID
        /\ \E m \in r.members : m \in UserIDs /\ userIDs[m] = id}

broadcastToRoomLocked(q, r, excludeConnID, env) ==
    [id \in Clients |->
        IF id /= excludeConnID
        THEN SendTimes(q[id], env, RoomSends(r, id)) ELSE q[id]]

RoomRow(creatorID, isPublic) ==
    [present |-> TRUE, creator_id |-> creatorID, is_public |-> isPublic,
     stale |-> FALSE]

\* the foreign keys of room_members: the room row and the user row exist
MemberFK(room, user) ==
    /\ room \in RoomIDs /\ roomRows[room].present
    /\ user \in UserIDs /\ users[user].present

\* CreateRoom as it would be if the RoomCreated broadcast were made for
\* private rooms too
CreateRoom_AlwaysBroadcast(c, name, isPublic, createOK) ==
    LET creatorID == MemberID(c)
        roomID == nextRoomID
        r == NewRoom(creatorID, isPublic)
        stored == createOK /\ creatorID \in UserIDs /\ users[creatorID].present
    IN  /\ Serving
        /\ ReadFrame(c)
        /\ IF Username[c] = "" \/ ~roomNameRegex(name) \/ ~stored
           THEN /\ reply' = [reply EXCEPT ![c] = RoomCreatedError(
                                IF Username[c] = "" THEN "NOT_REGISTERED"
                                ELSE IF ~roomNameRegex(name) THEN "INVALID_ROOM_NAME"
                                ELSE "INVALID_MESSAGE")]
                /\ UNCHANGED <<rooms, crooms, Send, roomRows, memberRows,
                               nextRoomID, panicked>>
           ELSE /\ nextRoomID <= MaxRooms
                /\ roomRows' = [roomRows EXCEPT ![roomID] = RoomRow(creatorID, isPublic)]
                /\ nextRoomID' = nextRoomID + 1
                /\ memberRows' = memberRows \cup {<<roomID, creatorID>>}
                /\ rooms' = [rooms EXCEPT ![roomID] = r]
                /\ crooms' = [crooms EXCEPT ![c] = @ \cup {roomID}]
                /\ Send' = broadcastLocked(Send, clients, Username, c,
                                           RoomCreated(roomID))
                /\ panicked' = BroadcastPanics(clients, Username, c)
                /\ reply' = [reply EXCEPT ![c] = RoomCreated(roomID)]
        /\ UNCHANGED <<clients, usernames, userIDs, Username, UserID, closed,
                       reader, users, pending, nextUserID, cleanupPC, loaded,
                       evicted>>

\* CreateRoom as it would be if a room the store failed to persist were
\* still put into h.rooms
CreateRoom_KeepsUnstoredRoom(c, name, isPublic, createOK) ==
    LET creatorID == MemberID(c)
        roomID == nextRoomID
        r == NewRoom(creatorID, isPublic)
        stored == createOK /\ creatorID \in UserIDs /\ users[creatorID].present
    IN  /\ Serving
        /\ ReadFrame(c)
        /\ IF Username[c] = "" \/ ~roomNameRegex(name)
           THEN /\ reply' = [reply EXCEPT ![c] = RoomCreatedError(
                                IF Username[c] = "" THEN "NOT_REGISTERED"
                                ELSE "INVALID_ROOM_NAME")]
                /\ UNCHANGED <<rooms, crooms, Send, roomRows, memberRows,
                               nextRoomID, panicked>>
           ELSE IF ~stored
           THEN /\ nextRoomID <= MaxRooms
                /\ rooms' = [rooms EXCEPT ![roomID] = r]
                /\ reply' = [reply EXCEPT ![c] = RoomCreatedError("INVALID_MESSAGE")]
                /\ UNCHANGED <<crooms, Send, roomRows, memberRows, nextRoomID,
                               panicked>>
           ELSE /\ nextRoomID <= MaxRooms
                /\ roomRows' = [roomRows EXCEPT ![roomID] = RoomRow(creatorID, isPublic)]
                /\ nextRoomID' = nextRoomID + 1
                /\ memberRows' = memberRows \cup {<<roomID, creatorID>>}
                /\ rooms' = [rooms EXCEPT ![roomID] = r]
                /\ crooms' = [crooms EXCEPT ![c] = @ \cup {roomID}]
                /\ Send' = IF isPublic
                           THEN broadcastLocked(Send, clients, Username, c,
                                                RoomCreated(roomID))
                           ELSE Send
                /\ panicked' = (isPublic /\ BroadcastPanics(clients, Username, c))
                /\ reply' = [reply EXCEPT ![c] = RoomCreated(roomID)]
        /\ UNCHANGED <<clients, usernames, userIDs, Username, UserID, closed,
                       reader, users, pending, nextUserID, cleanupPC, loaded,
                       evicted>>

\* handleRoomCreate up to the return of h.CreateRoom
CreateRoom(c, name, isPublic, createOK) ==
    LET creatorID == MemberID(c)
        roomID == nextRoomID
        r == NewRoom(creatorID, isPublic)
        stored == createOK /\ creatorID \in UserIDs /\ users[creatorID].present
    IN  /\ Serving
        /\ ReadFrame(c)
        /\ IF Username[c] = "" \/ ~roomNameRegex(name) \/ ~stored
           THEN /\ reply' = [reply EXCEPT ![c] = RoomCreatedError(
                                IF Username[c] = "" THEN "NOT_REGISTERED"
                                ELSE IF ~roomNameRegex(name) THEN "INVALID_ROOM_NAME"
                                ELSE "INVALID_MESSAGE")]
                /\ UNCHANGED <<rooms, crooms, Send, roomRows, memberRows,
                               nextRoomID, panicked>>
           ELSE /\ nextRoomID <= MaxRooms
                /\ roomRows' = [roomRows EXCEPT ![roomID] = RoomRow(creatorID, isPublic)]
                /\ nextRoomID' = nextRoomID + 1
                /\ memberRows' = memberRows \cup {<<roomID, creatorID>>}
                /\ rooms' = [rooms EXCEPT ![roomID] = r]
                /\ crooms' = [crooms EXCEPT ![c] = @ \cup {roomID}]
                /\ Send' = IF isPublic
                           THEN broadcastLocked(Send, clients, Username, c,
                                                RoomCreated(roomID))
                           ELSE Send
                /\ panicked' = (isPublic /\ BroadcastPanics(clients, Username, c))
                /\ reply' = [reply EXCEPT ![c] = RoomCreated(roomID)]
        /\ UNCHANGED <<clients, usernames, userIDs, Username, UserID, closed,
                       reader, users, pending, nextUserID, cleanupPC, loaded,
                       evicted>>

\* JoinRoom as it would be if the join of a user who is already a member were
\* announced like a first join
JoinRoom_AnnouncesRejoin(c, roomID) ==
    LET memberID == MemberID(c)
        r == rooms[roomID]
        r2 == [r EXCEPT !.members = @ \cup {memberID}]
    IN  /\ Serving
        /\ ReadFrame(c)
        /\ IF Username[c] = "" \/ ~r.present
           THEN /\ reply' = [reply EXCEPT ![c] = RoomJoinedError(roomID,
                                IF Username[c] = "" THEN "NOT_REGISTERED"
                                ELSE "ROOM_NOT_FOUND")]
                /\ UNCHANGED <<rooms, crooms, Send, pending, panicked>>
           ELSE /\ CanSpawn
                /\ rooms' = [rooms EXCEPT ![roomID] = r2]
                /\ crooms' = [crooms EXCEPT ![c] = @ \cup {roomID}]
                /\ pending' = Spawn([op |-> "MemberAdd", room |-> roomID,
                                     user |-> memberID])
                /\ Send' = broadcastToRoomLocked(Send, r2, c,
                               RoomMembers(roomID, "joined", memberID, Username[c]))
                /\ panicked' = \E id \in RoomTargets(r2, c) : closed[id]
                /\ reply' = [reply EXCEPT ![c] = RoomJoined(roomID)]
        /\ UNCHANGED <<clients, usernames, userIDs, Username, UserID, closed,
                       reader, users, roomRows, memberRows, nextUserID,
                       nextRoomID, cleanupPC, loaded, evicted>>

\* handleRoomJoin up to the return of h.JoinRoom
JoinRoom(c, roomID) ==
    LET memberID == MemberID(c)
        r == rooms[roomID]
        r2 == [r EXCEPT !.members = @ \cup {memberID}]
    IN  /\ Serving
        /\ ReadFrame(c)
        /\ IF Username[c] = "" \/ ~r.present
           THEN /\ reply' = [reply EXCEPT ![c] = RoomJoinedError(roomID,
                                IF Username[c] = "" THEN "NOT_REGISTERED"
                                ELSE "ROOM_NOT_FOUND")]
                /\ UNCHANGED <<rooms, crooms, Send, pending, panicked>>
           ELSE IF memberID \in r.members
           THEN /\ crooms' = [crooms EXCEPT ![c] = @ \cup {roomID}]
                /\ reply' = [reply EXCEPT ![c] = RoomJoined(roomID)]
                /\ UNCHANGED <<rooms, Send, pending, panicked>>
           ELSE /\ CanSpawn
                /\ rooms' = [rooms EXCEPT ![roomID] = r2]
                /\ crooms' = [crooms EXCEPT ![c] = @ \cup {roomID}]
                /\ pending' = Spawn([op |-> "MemberAdd", room |-> roomID,
                                     user |-> memberID])
                /\ Send' = broadcastToRoomLocked(Send, r2, c,
                               RoomMembers(roomID, "joined", memberID, Username[c]))
                /\ panicked' = \E id \in RoomTargets(r2, c) : closed[id]
                /\ reply' = [reply EXCEPT ![c] = RoomJoined(roomID)]
        /\ UNCHANGED <<clients, usernames, userIDs, Username, UserID, closed,
                       reader, users, roomRows, memberRows, nextUserID,
                       nextRoomID, cleanupPC, loaded, evicted>>

\* LeaveRoom as it would be if the room were dropped from h.rooms when its
\* last member leaves
LeaveRoom_DeletesEmptyRoom(c, roomID) ==
    LET memberID == MemberID(c)
        r == rooms[roomID]
        r2 == [r EXCEPT !.members = @ \ {memberID}]
    IN  /\ Serving
        /\ ReadFrame(c)
        /\ IF ~r.present \/ memberID \notin r.members
           THEN /\ reply' = [reply EXCEPT ![c] = RoomLeftError(roomID,
                                IF ~r.present THEN "ROOM_NOT_FOUND"
                                ELSE "NOT_IN_ROOM")]
                /\ UNCHANGED <<rooms, crooms, Send, pending, panicked>>
           ELSE /\ CanSpawn
                /\ rooms' = [rooms EXCEPT ![roomID] =
                                IF r2.members = {} THEN NoRoom ELSE r2]
                /\ crooms' = [crooms EXCEPT ![c] = @ \ {roomID}]
                /\ pending' = Spawn([op |-> "MemberRemove", room |-> roomID,
                                     user |-> memberID])
                /\ Send' = broadcastToRoomLocked(Send, r2, c,
                               RoomMembers(roomID, "left", memberID, Username[c]))
                /\ panicked' = \E id \in RoomTargets(r2, c) : closed[id]
                /\ reply' = [reply EXCEPT ![c] = RoomLeft(roomID)]
        /\ UNCHANGED <<clients, usernames, userIDs, Username, UserID, closed,
                       reader, users, roomRows, memberRows, nextUserID,
                       nextRoomID, cleanupPC, loaded, evicted>>

\* handleRoomLeave up to the return of h.LeaveRoom
LeaveRoom(c, roomID) ==
    LET memberID == MemberID(c)
        r == rooms[roomID]
        r2 == [r EXCEPT !.members = @ \ {memberID}]
    IN  /\ Serving
        /\ ReadFrame(c)
        /\ IF ~r.present \/ memberID \notin r.members
           THEN /\ reply' = [reply EXCEPT ![c] = RoomLeftError(roomID,
                                IF ~r.present THEN "ROOM_NOT_FOUND"
                                ELSE "NOT_IN_ROOM")]
                /\ UNCHANGED <<rooms, crooms, Send, pending, panicked>>
           ELSE /\ CanSpawn
                /\ rooms' = [rooms EXCEPT ![roomID] = r2]
                /\ crooms' = [crooms EXCEPT ![c] = @ \ {roomID}]
                /\ pending' = Spawn([op |-> "MemberRemove", room |-> roomID,
                                     user |-> memberID])
                /\ Send' = broadcastToRoomLocked(Send, r2, c,
                               RoomMembers(roomID, "left", memberID, Username[c]))
                /\ panicked' = \E id \in RoomTargets(r2, c) : closed[id]
                /\ reply' = [reply EXCEPT ![c] = RoomLeft(roomID)]
        /\ UNCHANGED <<clients, usernames, userIDs, Username, UserID, closed,
                       reader, users, roomRows, memberRows, nextUserID,
                       nextRoomID, cleanupPC, loaded, evicted>>

\* ------------------------------------------------- store goroutines, cleanup
\* one `go func() { ...store call... }()` runs; its error is discarded
RunPending(op) ==
    /\ ~panicked /\ main = "serving"
    /\ BagIn(op, pending)
    /\ pending' = pending (-) SetToBag({op})
    /\ users' = IF op.op = "UpdateLastSeen" /\ users[op.user].present
                THEN [users EXCEPT ![op.user].stale = FALSE]
                ELSE users
    /\ memberRows' =
          IF op.op = "MemberAdd" /\ MemberFK(op.room, op.user)
          THEN memberRows \cup {<<op.room, op.user>>}
          ELSE IF op.op = "MemberRemove"
          THEN memberRows \ {<<op.room, op.user>>}
          ELSE memberRows
    /\ roomRows' = IF op.op = "UpdateActivity" /\ roomRows[op.room].present
                   THEN [roomRows EXCEPT ![op.room].stale = FALSE]
                   ELSE roomRows
    /\ UNCHANGED <<frames, clients, usernames, userIDs, rooms, Username, UserID, crooms,
                   Send, closed, reader, reply, nextUserID, nextRoomID,
                   cleanupPC, loaded, evicted, panicked>>

\* wall-clock time passes: the room inactivity timeout (7 days by default)
\* elapses for every row written so far, or the user inactivity timeout
\* (90 days) as well
TimePasses(long) ==
    /\ Serving
    /\ roomRows' = [r \in RoomIDs |->
                       IF roomRows[r].present
                       THEN [roomRows[r] EXCEPT !.stale = TRUE] ELSE roomRows[r]]
    /\ users' = [id \in UserIDs |->
                    IF long /\ users[id].present
                    THEN [users[id] EXCEPT !.stale = TRUE] ELSE users[id]]
    /\ UNCHANGED <<frames, clients, usernames, userIDs, rooms, Username, UserID, crooms,
                   Send, closed, reader, reply, memberRows, pending, nextUserID,
                   nextRoomID, cleanupPC, loaded, evicted, panicked>>

\* the rows of room_messages left when the rooms and users of the two sets
\* are deleted: room_id and sender_id are ON DELETE CASCADE
MessagesWithout(goneRooms, goneUsers) ==
    LET Kept(m) == m.room_id \notin goneRooms /\ m.sender_id \notin goneUsers
    IN  SelectSeq(messages, Kept)

\* DELETE FROM room_messages WHERE created_at < cutoff
MessagesSince(cutoff) ==
    LET Kept(m) == ~(m.created_at < cutoff)
    IN  SelectSeq(messages, Kept)

\* DeleteRooms as it would be if room_messages.room_id had no ON DELETE
\* CASCADE
DeleteRooms_KeepsMessages(gone) ==
    /\ roomRows' = [r \in RoomIDs |-> IF r \in gone THEN NoRow ELSE roomRows[r]]
    /\ memberRows' = {m \in memberRows : m[1] \notin gone}
    /\ messages' = messages

\* DELETE FROM rooms for the ids in `gone`, with ON DELETE CASCADE to
\* room_members and room_messages
DeleteRooms(gone) ==
    /\ roomRows' = [r \in RoomIDs |-> IF r \in gone THEN NoRow ELSE roomRows[r]]
    /\ memberRows' = {m \in memberRows : m[1] \notin gone}
    /\ messages' = MessagesWithout(gone, {})

\* CleanupJob.run, ticker case: RunAll starts with Cleanup.OldMessages
CleanupOldMessages(ok) ==
    /\ Serving
    /\ cleanupPC = "idle"
    /\ cleanupPC' = IF ok THEN "rooms" ELSE "idle"
    /\ \E cutoff \in 0..(accepted + 1) :
          messages' = IF ok THEN MessagesSince(cutoff) ELSE messages
    /\ UNCHANGED <<frames, clients, usernames, userIDs, rooms, Username, UserID, crooms,
                   Send, closed, reader, reply, users, roomRows, memberRows,
                   pending, nextUserID, nextRoomID, loaded, evicted, panicked>>

\* Cleanup.InactiveRooms: DELETE FROM rooms WHERE last_activity_at < cutoff
CleanupInactiveRoomsJob(ok) ==
    /\ Serving
    /\ cleanupPC = "rooms"
    /\ cleanupPC' = IF ok THEN "users" ELSE "idle"
    /\ IF ok
       THEN DeleteRooms({r \in RoomIDs : roomRows[r].present /\ roomRows[r].stale})
       ELSE UNCHANGED <<roomRows, memberRows, messages>>
    /\ UNCHANGED <<frames, clients, usernames, userIDs, rooms, Username, UserID, crooms,
                   Send, closed, reader, reply, users, pending, nextUserID,
                   nextRoomID, loaded, evicted, panicked>>

\* Cleanup.InactiveUsers: DELETE FROM users WHERE last_seen_at < cutoff, with
\* ON DELETE CASCADE to rooms.creator_id, room_members.user_id and
\* room_messages.sender_id
CleanupInactiveUsers(ok) ==
    LET goneUsers == {id \in UserIDs : users[id].present /\ users[id].stale}
        goneRooms == {r \in RoomIDs :
                        roomRows[r].present /\ roomRows[r].creator_id \in goneUsers}
    IN  /\ Serving
        /\ cleanupPC = "users"
        /\ cleanupPC' = "idle"
        /\ IF ok
           THEN /\ users' = [id \in UserIDs |->
                                IF id \in goneUsers THEN NoRow ELSE users[id]]
                /\ roomRows' = [r \in RoomIDs |->
                                   IF r \in goneRooms THEN NoRow ELSE roomRows[r]]
                /\ memberRows' = {m \in memberRows :
                                    m[1] \notin goneRooms /\ m[2] \notin goneUsers}
                /\ messages' = MessagesWithout(goneRooms, goneUsers)
           ELSE UNCHANGED <<users, roomRows, memberRows, messages>>
        /\ UNCHANGED <<frames, clients, usernames, userIDs, rooms, Username, UserID,
                       crooms, Send, closed, reader, reply, pending, nextUserID,
                       nextRoomID, loaded, evicted, panicked>>

\* func main leaves http.ListenAndServe: the error goes to log.Fatal, which
\* prints it and calls os.Exit(1).  The deferred cleanupJob.Stop() and
\* db.Close() do not run, and no goroutine is waited for: the process ends
\* with the cleanup job wherever it is.
Shutdown ==
    /\ Serving
    /\ main' = "exited"
    /\ UNCHANGED <<clients, usernames, userIDs, rooms, Username, UserID, crooms,
                   Send, closed, reader, reply, users, roomRows, memberRows,
                   pending, nextUserID, nextRoomID, cleanupPC, loaded, frames,
                   evicted, panicked, messages, accepted, call, announced, mu>>

\* ------------------------------------------------------------------ LoadRooms
\* MemberStore.GetRoomMembers: the user ids stored for the room
GetRoomMembers(room) == {m[2] : m \in {x \in memberRows : x[1] = room}}

\* Hub.LoadRooms as main calls it before serving.  getAllOK: RoomStore.GetAll
\* returns without error; failed: the rooms whose GetRoomMembers call errors
LoadRooms(getAllOK, failed) ==
    /\ ~loaded
    /\ ~panicked
    /\ loaded' = TRUE
    /\ rooms' = IF ~getAllOK THEN rooms
                ELSE [r \in RoomIDs |->
                        IF ~roomRows[r].present THEN rooms[r]
                        ELSE LET n == NewRoom(roomRows[r].creator_id,
                                              roomRows[r].is_public)
                             IN  IF r \in failed THEN n
                                 ELSE [n EXCEPT !.members = @ \cup GetRoomMembers(r)]]
    /\ UNCHANGED <<frames, clients, usernames, userIDs, Username, UserID, crooms, Send,
                   closed, reader, reply, users, roomRows, memberRows, pending,
                   nextUserID, nextRoomID, cleanupPC, evicted, panicked>>

\* ----------------------------------------------------------------- messages
Contents == {"hi", "yo"}

\* h.mu can be taken by a writer: no SendRoomMessage holds its RLock
Unlocked == \A c \in Clients : call[c].op /= "room"

MessageRow(id, room, senderID, sender, content, at) ==
    [id |-> id, room_id |-> room, sender_id |-> senderID,
     sender_username |-> sender, content |-> content, created_at |-> at]

\* the foreign keys of room_messages: the room row and the sender's row exist
MessageFK(room, sender) ==
    /\ roomRows[room].present
    /\ sender \in UserIDs /\ users[sender].present

\* SendRoomMessage as it would be if sending also re-asserted the sender's
\* joined-room set (c.JoinRoom(roomID))
SendRoomMessage_Rejoining(c, roomID, content, saveOK) ==
    LET senderID == MemberID(c)
        r == rooms[roomID]
        saved == saveOK /\ MessageFK(roomID, senderID)
        at == accepted + 1
        mid == IF saved THEN at ELSE 0 - at
        code == IF Username[c] = "" THEN "NOT_REGISTERED"
                ELSE IF ~r.present THEN "ROOM_NOT_FOUND"
                ELSE IF senderID \notin r.members THEN "NOT_IN_ROOM"
                ELSE "ok"
    IN  /\ Serving
        /\ ReadFrame(c)
        /\ IF code /= "ok"
           THEN /\ reply' = [reply EXCEPT ![c] = ErrorEnv(code, "")]
                /\ UNCHANGED <<messages, accepted, call, pending, crooms>>
           ELSE /\ CanSpawn
                /\ messages' = IF saved
                               THEN Append(messages,
                                        MessageRow(mid, roomID, senderID, Username[c],
                                                   content, at))
                               ELSE messages
                /\ accepted' = at
                /\ pending' = Spawn([op |-> "UpdateActivity", room |-> roomID,
                                     user |-> 0])
                /\ call' = [call EXCEPT ![c] =
                               [op |-> "room", to |-> NoClient, room |-> roomID,
                                limit |-> 0, before |-> 0,
                                env |-> RoomMessage(mid, at, roomID, senderID,
                                                    Username[c], content)]]
                /\ crooms' = [crooms EXCEPT ![c] = @ \cup {roomID}]
                /\ UNCHANGED reply
        /\ UNCHANGED <<clients, usernames, userIDs, rooms, Username, UserID,
                       Send, closed, reader, users, roomRows, memberRows,
                       nextUserID, nextRoomID, cleanupPC, loaded, evicted, panicked>>

\* SendRoomMessage as it would be without the membership test
SendRoomMessage_AnySender(c, roomID, content, saveOK) ==
    LET senderID == MemberID(c)
        r == rooms[roomID]
        saved == saveOK /\ MessageFK(roomID, senderID)
        at == accepted + 1
        mid == IF saved THEN at ELSE 0 - at
        code == IF Username[c] = "" THEN "NOT_REGISTERED"
                ELSE IF ~r.present THEN "ROOM_NOT_FOUND"
                ELSE "ok"
    IN  /\ Serving
        /\ ReadFrame(c)
        /\ IF code /= "ok"
           THEN /\ reply' = [reply EXCEPT ![c] = ErrorEnv(code, "")]
                /\ UNCHANGED <<messages, accepted, call, pending>>
           ELSE /\ CanSpawn
                /\ messages' = IF saved
                               THEN Append(messages,
                                        MessageRow(mid, roomID, senderID, Username[c],
                                                   content, at))
                               ELSE messages
                /\ accepted' = at
                /\ pending' = Spawn([op |-> "UpdateActivity", room |-> roomID,
                                     user |-> 0])
                /\ call' = [call EXCEPT ![c] =
                               [op |-> "room", to |-> NoClient, room |-> roomID,
                                limit |-> 0, before |-> 0,
                                env |-> RoomMessage(mid, at, roomID, senderID,
                                                    Username[c], content)]]
                /\ UNCHANGED reply
        /\ UNCHANGED <<clients, usernames, userIDs, rooms, Username, UserID, crooms,
                       Send, closed, reader, users, roomRows, memberRows,
                       nextUserID, nextRoomID, cleanupPC, loaded, evicted, panicked>>

\* handleRoomMessage up to the end of MessageStore.Save and the start of the
\* UpdateActivity goroutine: the checks and the insert run under h.mu.RLock(),
\* which the call still holds afterwards (call[c].op = "room").  saveOK: the
\* insert goes through; when it does not, the message gets a fresh uuid (a
\* negative id here) and the hub's own timestamp.
SendRoomMessage(c, roomID, content, saveOK) ==
    LET senderID == MemberID(c)
        r == rooms[roomID]
        saved == saveOK /\ MessageFK(roomID, senderID)
        at == accepted + 1
        mid == IF saved THEN at ELSE 0 - at
        code == IF Username[c] = "" THEN "NOT_REGISTERED"
                ELSE IF ~r.present THEN "ROOM_NOT_FOUND"
                ELSE IF senderID \notin r.members THEN "NOT_IN_ROOM"
                ELSE "ok"
    IN  /\ Serving
        /\ ReadFrame(c)
        /\ IF code /= "ok"
           THEN /\ reply' = [reply EXCEPT ![c] = ErrorEnv(code, "")]
                /\ UNCHANGED <<messages, accepted, call, pending>>
           ELSE /\ CanSpawn
                /\ messages' = IF saved
                               THEN Append(messages,
                                        MessageRow(mid, roomID, senderID, Username[c],
                                                   content, at))
                               ELSE messages
                /\ accepted' = at
                /\ pending' = Spawn([op |-> "UpdateActivity", room |-> roomID,
                                     user |-> 0])
                /\ call' = [call EXCEPT ![c] =
                               [op |-> "room", to |-> NoClient, room |-> roomID,
                                limit |-> 0, before |-> 0,
                                env |-> RoomMessage(mid, at, roomID, senderID,
                                                    Username[c], content)]]
                /\ UNCHANGED reply
        /\ UNCHANGED <<clients, usernames, userIDs, rooms, Username, UserID, crooms,
                       Send, closed, reader, users, roomRows, memberRows,
                       nextUserID, nextRoomID, cleanupPC, loaded, evicted, panicked>>

\* the loop of SendRoomMessage over r.MemberList() and the return (RUnlock);
\* the sends of one loop are taken together
SendRoomMessageFanOut(c) ==
    LET r == rooms[call[c].room]
    IN  /\ Serving
        /\ call[c].op = "room"
        /\ Send' = [id \in Clients |->
                       SendTimes(Send[id], call[c].env, RoomSends(r, id))]
        /\ panicked' = \E id \in Clients : RoomSends(r, id) > 0 /\ closed[id]
        /\ call' = [call EXCEPT ![c] = NoCall]
        /\ UNCHANGED <<frames, clients, usernames, userIDs, rooms, Username, UserID,
                       crooms, closed, reader, reply, users, roomRows, memberRows,
                       pending, nextUserID, nextRoomID, cleanupPC, loaded, evicted,
                       messages, accepted>>

\* SendDirectMessage as it would be without the `from.Username == ""` test
SendDirectMessage_Unregistered(c, toUsername, content) ==
    LET toClientID == IF toUsername \in ValidUsernames THEN usernames[toUsername]
                      ELSE NoClient
        code == IF toClientID = NoClient \/ toClientID \notin clients
                THEN "USER_NOT_FOUND"
                ELSE "ok"
    IN  /\ Serving
        /\ ReadFrame(c)
        /\ IF code /= "ok"
           THEN /\ reply' = [reply EXCEPT ![c] = ErrorEnv(code, toUsername)]
                /\ UNCHANGED call
           ELSE /\ call' = [call EXCEPT ![c] =
                               [op |-> "direct", to |-> toClientID, room |-> 0,
                                limit |-> 0, before |-> 0,
                                env |-> DirectMessage(MemberID(c), Username[c],
                                                      content)]]
                /\ UNCHANGED reply
        /\ UNCHANGED <<clients, usernames, userIDs, rooms, Username, UserID, crooms,
                       Send, closed, reader, users, roomRows, memberRows, pending,
                       nextUserID, nextRoomID, cleanupPC, loaded, evicted, panicked,
                       messages, accepted>>

\* handleDirectMessage up to the RUnlock of h.SendDirectMessage: the checks and
\* the lookup of the target; the send itself follows outside the lock
SendDirectMessage(c, toUsername, content) ==
    LET toClientID == IF toUsername \in ValidUsernames THEN usernames[toUsername]
                      ELSE NoClient
        code == IF Username[c] = "" THEN "NOT_REGISTERED"
                ELSE IF toClientID = NoClient \/ toClientID \notin clients
                THEN "USER_NOT_FOUND"
                ELSE "ok"
    IN  /\ Serving
        /\ ReadFrame(c)
        /\ IF code /= "ok"
           THEN /\ reply' = [reply EXCEPT ![c] = ErrorEnv(code, toUsername)]
                /\ UNCHANGED call
           ELSE /\ call' = [call EXCEPT ![c] =
                               [op |-> "direct", to |-> toClientID, room |-> 0,
                                limit |-> 0, before |-> 0,
                                env |-> DirectMessage(MemberID(c), Username[c],
                                                      content)]]
                /\ UNCHANGED reply
        /\ UNCHANGED <<clients, usernames, userIDs, rooms, Username, UserID, crooms,
                       Send, closed, reader, users, roomRows, memberRows, pending,
                       nextUserID, nextRoomID, cleanupPC, loaded, evicted, panicked,
                       messages, accepted>>

\* the last statement of SendDirectMessage: toClient.SendMessage(TypeDirectMsg,
\* ...) on the client looked up before the RUnlock
SendDirectMessageSend(c) ==
    LET to == call[c].to
    IN  /\ Serving
        /\ call[c].op = "direct"
        /\ panicked' = closed[to]
        /\ Send' = IF closed[to] THEN Send
                   ELSE [Send EXCEPT ![to] = SendMessage(Send[to], call[c].env)]
        /\ call' = [call EXCEPT ![c] = NoCall]
        /\ UNCHANGED <<frames, clients, usernames, userIDs, rooms, Username, UserID,
                       crooms, closed, reader, reply, users, roomRows, memberRows,
                       pending, nextUserID, nextRoomID, cleanupPC, loaded, evicted,
                       messages, accepted>>

\* the users known to a peer after its channel accepted the envelopes `added`
RECURSIVE Announce(_, _)
Announce(known, added) ==
    IF added = <<>> THEN known
    ELSE LET e == Head(added)
         IN  Announce(IF e.type = "user_joined" THEN known \cup {e.uid}
                      ELSE IF e.type = "user_left" THEN known \ {e.uid}
                      ELSE known,
                      Tail(added))

\* the announcements follow what a step's sends added at the tail of each
\* channel
Logged ==
    announced' = [c \in Clients |->
                     Announce(announced[c],
                              SubSeq(Send'[c], Len(Send[c]) + 1, Len(Send'[c])))]
    /\ UNCHANGED <<main, mu>>

\* a step of a hub method that neither stores nor sends a message
Held == UNCHANGED <<messages, accepted, call>> /\ Logged

\* Hub.CleanupInactiveRooms up to `if count > 0`: RoomStore.CleanupInactive
\* (DELETE FROM rooms WHERE last_activity_at < cutoff) outside the hub lock.
\* cleanupOK: the DELETE goes through.  With rows deleted the routine goes on
\* to the sweep of h.rooms (cleanupPC = "sweep")
CleanupInactiveRooms(cleanupOK) ==
    LET gone == {r \in RoomIDs : roomRows[r].present /\ roomRows[r].stale}
    IN  /\ Serving
        /\ cleanupPC = "idle"
        /\ IF cleanupOK
           THEN DeleteRooms(gone)
           ELSE UNCHANGED <<roomRows, memberRows, messages>>
        /\ cleanupPC' = IF cleanupOK /\ gone /= {} THEN "sweep" ELSE "idle"
        /\ UNCHANGED <<frames, clients, usernames, userIDs, rooms, Username, UserID,
                       crooms, Send, closed, reader, reply, users, pending,
                       nextUserID, nextRoomID, loaded, evicted, panicked>>

\* Hub.CleanupInactiveRooms, `if count > 0 { ... }` under h.mu.Lock():
\* `storedRooms, _ := h.roomStore.GetAll(ctx)`, then every room of h.rooms
\* whose id is not among the stored ones is deleted.  getAllOK: GetAll returns
\* without error; its error is discarded and leaves storedRooms nil
CleanupInactiveRoomsSweep(getAllOK) ==
    LET storedIDs == IF getAllOK THEN {r \in RoomIDs : roomRows[r].present} ELSE {}
    IN  /\ Serving
        /\ Unlocked
        /\ cleanupPC = "sweep"
        /\ rooms' = [r \in RoomIDs |-> IF r \in storedIDs THEN rooms[r] ELSE NoRoom]
        /\ cleanupPC' = "idle"
        /\ UNCHANGED <<frames, clients, usernames, userIDs, Username, UserID, crooms,
                       Send, closed, reader, reply, users, roomRows, memberRows,
                       pending, nextUserID, nextRoomID, loaded, evicted, panicked>>

\* ------------------------------------------------------------------ history
maxHistoryLimit == 100     \* `limit > 100`
defaultHistoryLimit == 50  \* `limit = 50`

\* the limit GetRoomHistory works with: `if limit <= 0 || limit > 100 { limit = 50 }`
HistoryLimit(limit) ==
    IF limit <= 0 \/ limit > maxHistoryLimit THEN defaultHistoryLimit ELSE limit

\* before.IsZero(): handleRoomHistory leaves `before` the zero time unless
\* p.Before > 0
ZeroTime == 0
BeforeTime(pBefore) == IF pBefore > 0 THEN pBefore ELSE ZeroTime

\* ORDER BY created_at DESC on a set of rows
RECURSIVE NewestFirst(_)
NewestFirst(rows) ==
    IF rows = {} THEN <<>>
    ELSE LET m == CHOOSE x \in rows : \A y \in rows : y.created_at <= x.created_at
         IN  <<m>> \o NewestFirst(rows \ {m})

\* MessageStore.GetHistory: the rows of the room, those with created_at <
\* before if before is not the zero time, newest first, LIMIT limit
GetHistory(roomID, limit, before) ==
    LET rows == {messages[i] : i \in 1..Len(messages)}
        sel == {m \in rows : /\ m.room_id = roomID
                             /\ (before = ZeroTime \/ m.created_at < before)}
        sorted == NewestFirst(sel)
    IN  IF Len(sorted) > limit THEN SubSeq(sorted, 1, limit) ELSE sorted

\* protocol.IncomingRoomMessage of a stored row
IncomingRoomMessage(m) ==
    RoomMessage(m.id, m.created_at, m.room_id, m.sender_id, m.sender_username,
                m.content)

\* `protoMessages[len(messages)-1-i] = ...`: the rows converted, in reverse
Reversed(rowSeq) ==
    [i \in 1..Len(rowSeq) |-> IncomingRoomMessage(rowSeq[Len(rowSeq) + 1 - i])]

RoomHistoryResponse(room, protoMessages, hasMore) ==
    [Env("room_history_response", 0, "", room, "", "")
        EXCEPT !.messages = protoMessages, !.has_more = hasMore]

\* handleRoomHistory and GetRoomHistory up to the second h.mu.RUnlock() and
\* the normalisation of the limit: the checks, made under the read lock
GetRoomHistory(c, roomID, limit, pBefore) ==
    LET memberID == MemberID(c)
        r == rooms[roomID]
        code == IF Username[c] = "" THEN "NOT_REGISTERED"
                ELSE IF ~r.present THEN "ROOM_NOT_FOUND"
                ELSE IF memberID \notin r.members THEN "NOT_IN_ROOM"
                ELSE "ok"
    IN  /\ Serving
        /\ ReadFrame(c)
        /\ IF code /= "ok"
           THEN /\ reply' = [reply EXCEPT ![c] = ErrorEnv(code, "")]
                /\ UNCHANGED call
           ELSE /\ call' = [call EXCEPT ![c] =
                               [op |-> "history", to |-> NoClient, room |-> roomID,
                                limit |-> HistoryLimit(limit),
                                before |-> BeforeTime(pBefore), env |-> NoEnv]]
                /\ UNCHANGED reply
        /\ UNCHANGED <<clients, usernames, userIDs, rooms, Username, UserID, crooms,
                       Send, closed, reader, users, roomRows, memberRows, pending,
                       nextUserID, nextRoomID, cleanupPC, loaded, evicted, panicked,
                       messages, accepted>>

\* the query as it would be if the rows were handed on in the store's order
GetRoomHistoryQuery_NewestFirst(c, getOK) ==
    LET q == call[c]
        fetched == GetHistory(q.room, q.limit + 1, q.before)
        hasMore == Len(fetched) > q.limit
        kept == IF hasMore THEN SubSeq(fetched, 1, q.limit) ELSE fetched
    IN  /\ ~panicked /\ main = "serving"
        /\ q.op = "history"
        /\ reply' = [reply EXCEPT ![c] =
                        IF getOK
                        THEN RoomHistoryResponse(q.room,
                                 [i \in 1..Len(kept) |-> IncomingRoomMessage(kept[i])],
                                 hasMore)
                        ELSE ErrorEnv("INVALID_MESSAGE", "")]
        /\ call' = [call EXCEPT ![c] = NoCall]
        /\ UNCHANGED <<frames, clients, usernames, userIDs, rooms, Username, UserID,
                       crooms, Send, closed, reader, users, roomRows, memberRows,
                       pending, nextUserID, nextRoomID, cleanupPC, loaded, evicted,
                       panicked, messages, accepted>>

\* the rest of GetRoomHistory: messageStore.GetHistory(ctx, roomID, limit+1,
\* before), has_more, the cut to `limit` rows and the reversal.  getOK: the
\* query returns without error
GetRoomHistoryQuery(c, getOK) ==
    LET q == call[c]
        fetched == GetHistory(q.room, q.limit + 1, q.before)
        hasMore == Len(fetched) > q.limit
        kept == IF hasMore THEN SubSeq(fetched, 1, q.limit) ELSE fetched
    IN  /\ ~panicked /\ main = "serving"
        /\ q.op = "history"
        /\ reply' = [reply EXCEPT ![c] =
                        IF getOK
                        THEN RoomHistoryResponse(q.room, Reversed(kept), hasMore)
                        ELSE ErrorEnv("INVALID_MESSAGE", "")]
        /\ call' = [call EXCEPT ![c] = NoCall]
        /\ UNCHANGED <<frames, clients, usernames, userIDs, rooms, Username, UserID,
                       crooms, Send, closed, reader, users, roomRows, memberRows,
                       pending, nextUserID, nextRoomID, cleanupPC, loaded, evicted,
                       panicked, messages, accepted>>

\* ------------------------------------------------------------------- locks
\* the mutexes: Hub.mu, Room.mu of each room, Client.mu of each connection
HubMu == [k |-> "hub", id |-> 0]
RoomMu(r) == [k |-> "room", id |-> r]
ClientMu(c) == [k |-> "client", id |-> c]
NoMu == [k |-> "none", id |-> 0]

\* a code path is the sequence of the mutex calls, store calls and channel
\* sends a goroutine makes; `act` names the part of the operation whose
\* effect on the hub's data takes place at the event ("" for none)
Ev(e, m, op, act) == <<[e |-> e, m |-> m, op |-> op, act |-> act]>>
Lock(m) == Ev("Lock", m, "", "")
Unlock(m) == Ev("Unlock", m, "", "")
RLock(m) == Ev("RLock", m, "", "")
RUnlock(m) == Ev("RUnlock", m, "", "")
StoreCall(op) == Ev("store", NoMu, op, "")

\* the methods of Room and Client: each takes its own mutex, touches its map
\* and returns (`defer r.mu.Unlock()`), calling nothing in between
AddMember(r) == Lock(RoomMu(r)) \o Unlock(RoomMu(r))
RemoveMember(r) == Lock(RoomMu(r)) \o Unlock(RoomMu(r))
HasMember(r) == RLock(RoomMu(r)) \o RUnlock(RoomMu(r))
MemberCount(r) == RLock(RoomMu(r)) \o RUnlock(RoomMu(r))
MemberList(r) == RLock(RoomMu(r)) \o RUnlock(RoomMu(r))
MemberInfoList(r) == RLock(RoomMu(r)) \o RUnlock(RoomMu(r))
Info(r) == MemberCount(r)
ClientJoinRoom(c) == Lock(ClientMu(c)) \o Unlock(ClientMu(c))
ClientLeaveRoom(c) == Lock(ClientMu(c)) \o Unlock(ClientMu(c))

\* seq repeated n times
RECURSIVE Times(_, _)
Times(seq, n) == IF n = 0 THEN <<>> ELSE seq \o Times(seq, n - 1)

\* the loop of LoadRooms over the stored rooms `rs`
RECURSIVE LoadRoomsLoop(_)
LoadRoomsLoop(rs) ==
    IF rs = {} THEN <<>>
    ELSE LET r == CHOOSE x \in rs : \A y \in rs : x <= y
         IN  StoreCall("GetRoomMembers")
             \o Times(AddMember(r), Cardinality(GetRoomMembers(r)))
             \o LoadRoomsLoop(rs \ {r})

\* Hub.LoadRooms
LoadRoomsPath ==
    Lock(HubMu) \o StoreCall("GetAll")
    \o LoadRoomsLoop({r \in RoomIDs : roomRows[r].present})
    \o Unlock(HubMu)

\* Hub.AddClient
AddClientPath == Lock(HubMu) \o Unlock(HubMu)

\* Hub.RegisterUser with loginExistingUserLocked: the username test comes
\* before h.mu.Lock(); GetByUsername, UpdateFingerprint and Create are called
\* between Lock and the deferred Unlock
RegisterUserPath(username, fingerprint, recoveryCode, lookupOK, writeOK) ==
    LET branch == RegisterBranch(username, fingerprint, recoveryCode, lookupOK, writeOK)
    IN  IF branch = "INVALID_USERNAME" THEN <<>>
        ELSE Lock(HubMu) \o StoreCall("GetByUsername")
             \o (IF branch = "recover" /\ fingerprint /= ""
                 THEN StoreCall("UpdateFingerprint")
                 ELSE IF branch = "new" \/ (branch = "INVALID_MESSAGE" /\ lookupOK)
                 THEN StoreCall("Create")
                 ELSE <<>>)
             \o Unlock(HubMu)

\* handleRoomCreate and Hub.CreateRoom: roomStore.Create and memberStore.Add
\* between Lock and the deferred Unlock, then room.Info() in the handler
CreateRoomPath(c, name, isPublic, createOK) ==
    LET creatorID == MemberID(c)
        stored == createOK /\ creatorID \in UserIDs /\ users[creatorID].present
    IN  IF Username[c] = "" \/ ~roomNameRegex(name) THEN <<>>
        ELSE Lock(HubMu) \o StoreCall("Create")
             \o (IF ~stored THEN Unlock(HubMu)
                 ELSE StoreCall("Add") \o ClientJoinRoom(c)
                      \o (IF isPublic THEN Info(nextRoomID) ELSE <<>>)
                      \o Unlock(HubMu) \o Info(nextRoomID))

\* Hub.GetRoomHistory: the checks between RLock and RUnlock, the query after
\* RUnlock; `act` is "query" where the model's GetRoomHistoryQuery acts
GetRoomHistoryPath(c, roomID, act) ==
    IF Username[c] = "" THEN <<>>
    ELSE RLock(HubMu)
         \o (IF ~rooms[roomID].present THEN RUnlock(HubMu)
             ELSE HasMember(roomID) \o RUnlock(HubMu)
                  \o (IF MemberID(c) \in rooms[roomID].members
                      THEN Ev("store", NoMu, "GetHistory", act) ELSE <<>>))

\* handleRoomJoin and Hub.JoinRoom; after a join the handler calls
\* room.Info(), h.GetRoomHistory and room.MemberInfoList()
JoinRoomPath(c, roomID) ==
    LET r == rooms[roomID]
        after == Info(roomID) \o RLock(HubMu) \o HasMember(roomID) \o RUnlock(HubMu)
                 \o StoreCall("GetHistory") \o MemberInfoList(roomID)
    IN  IF Username[c] = "" THEN <<>>
        ELSE Lock(HubMu)
             \o (IF ~r.present THEN Unlock(HubMu)
                 ELSE HasMember(roomID)
                      \o (IF MemberID(c) \in r.members THEN ClientJoinRoom(c)
                          ELSE AddMember(roomID) \o ClientJoinRoom(c)
                               \o MemberInfoList(roomID) \o MemberList(roomID))
                      \o Unlock(HubMu) \o after)

\* Hub.LeaveRoom
LeaveRoomPath(c, roomID) ==
    LET r == rooms[roomID]
    IN  Lock(HubMu)
        \o (IF ~r.present THEN <<>>
            ELSE HasMember(roomID)
                 \o (IF MemberID(c) \notin r.members THEN <<>>
                     ELSE RemoveMember(roomID) \o ClientLeaveRoom(c)
                          \o MemberInfoList(roomID) \o MemberList(roomID)))
        \o Unlock(HubMu)

\* Hub.SendRoomMessage as it would be if it looked the room up with
\* h.GetRoom(roomID), which takes h.mu.RLock() itself
SendRoomMessagePath_ViaGetRoom(c, roomID) ==
    LET r == rooms[roomID]
    IN  IF Username[c] = "" THEN <<>>
        ELSE RLock(HubMu) \o RLock(HubMu) \o RUnlock(HubMu)
             \o (IF ~r.present THEN <<>>
                 ELSE HasMember(roomID)
                      \o (IF MemberID(c) \notin r.members THEN <<>>
                          ELSE StoreCall("Save") \o MemberList(roomID)
                               \o Ev("send", NoMu, "", "fanout")))
             \o RUnlock(HubMu)

\* Hub.SendRoomMessage: RLock, the checks, messageStore.Save, the loop over
\* r.MemberList() with its sends, and the deferred RUnlock
SendRoomMessagePath(c, roomID) ==
    LET r == rooms[roomID]
    IN  IF Username[c] = "" THEN <<>>
        ELSE RLock(HubMu)
             \o (IF ~r.present THEN <<>>
                 ELSE HasMember(roomID)
                      \o (IF MemberID(c) \notin r.members THEN <<>>
                          ELSE StoreCall("Save") \o MemberList(roomID)
                               \o Ev("send", NoMu, "", "fanout")))
             \o RUnlock(HubMu)

\* Hub.CleanupInactiveRooms: roomStore.CleanupInactive before the lock, and
\* with rows deleted h.mu.Lock(), roomStore.GetAll, h.mu.Unlock()
CleanupInactiveRoomsPath(cleanupOK) ==
    StoreCall("CleanupInactive")
    \o (IF cleanupOK /\ \E r \in RoomIDs : roomRows[r].present /\ roomRows[r].stale
        THEN Ev("Lock", HubMu, "", "sweep") \o StoreCall("GetAll") \o Unlock(HubMu)
        ELSE <<>>)

\* sync.RWMutex: who holds the mutex, who holds it for writing, and who is
\* blocked in Lock() on it (a goroutine outside every operation blocks on
\* h.mu)
Holders(m) == {g \in Goroutines : \E l \in mu[g].held : l.m = m}
Writers(m) == {g \in Goroutines : [m |-> m, mode |-> "W"] \in mu[g].held}
NextEvent(g) ==
    IF mu[g].path = <<>> THEN Lock(HubMu)[1] ELSE mu[g].path[1]
Announced(m) ==
    {g \in Goroutines : mu[g].waiting /\ NextEvent(g).m = m}

\* the call returns at once: Lock() needs the mutex free, RLock() needs no
\* writer holding it and none blocked in Lock() (a pending Lock() keeps new
\* readers out); everything else never blocks
Granted(g, ev) ==
    CASE ev.e = "Lock" -> Holders(ev.m) = {}
      [] ev.e = "RLock" -> Writers(ev.m) = {} /\ Announced(ev.m) \ {g} = {}
      [] OTHER -> TRUE

\* mu once goroutine g has made the first call of `path`
Exec(g, path) ==
    LET ev == path[1]
        held == CASE ev.e = "Lock" -> mu[g].held \cup {[m |-> ev.m, mode |-> "W"]}
                  [] ev.e = "RLock" -> mu[g].held \cup {[m |-> ev.m, mode |-> "R"]}
                  [] ev.e = "Unlock" -> mu[g].held \ {[m |-> ev.m, mode |-> "W"]}
                  [] ev.e = "RUnlock" -> mu[g].held \ {[m |-> ev.m, mode |-> "R"]}
                  [] OTHER -> mu[g].held
    IN  [mu EXCEPT ![g] = [held |-> held, path |-> Tail(path), waiting |-> FALSE]]

\* goroutine g, outside every operation, starts on `path` and makes its first
\* call; a goroutine blocked in h.mu.Lock() is on a path that begins with it
Enter(g, path) ==
    /\ mu[g].path = <<>>
    /\ mu[g].waiting => (path /= <<>> /\ path[1] = Lock(HubMu)[1])
    /\ IF path = <<>> THEN mu' = mu
       ELSE Granted(g, path[1]) /\ mu' = Exec(g, path)

\* the next call of g's path that has no effect on the hub's data
Proceed(g) ==
    /\ ~panicked
    /\ mu[g].path /= <<>>
    /\ mu[g].path[1].act = ""
    /\ Granted(g, mu[g].path[1])
    /\ mu' = Exec(g, mu[g].path)
    /\ UNCHANGED <<clients, usernames, userIDs, rooms, Username, UserID, crooms,
                   Send, closed, reader, reply, users, roomRows, memberRows,
                   pending, nextUserID, nextRoomID, cleanupPC, loaded, frames,
                   evicted, panicked, messages, accepted, call, announced, main>>

\* the next call of g's path where the part `act` of an operation acts
Act(g, act) ==
    /\ mu[g].path /= <<>>
    /\ mu[g].path[1].act = act
    /\ Granted(g, mu[g].path[1])
    /\ mu' = Exec(g, mu[g].path)

\* g calls Lock() on a mutex that is held and blocks: a handler about to run
\* an operation that begins with h.mu.Lock(), or a path whose next call is a
\* Lock()
WaitForLock(g) ==
    /\ Serving
    /\ ~mu[g].waiting
    /\ IF mu[g].path = <<>>
       THEN g \in Clients /\ Idle(g) /\ frames[g] < MaxFrames
       ELSE mu[g].path[1].e = "Lock"
    /\ Holders(NextEvent(g).m) /= {}
    /\ mu' = [mu EXCEPT ![g].waiting = TRUE]
    /\ UNCHANGED <<clients, usernames, userIDs, rooms, Username, UserID, crooms,
                   Send, closed, reader, reply, users, roomRows, memberRows,
                   pending, nextUserID, nextRoomID, cleanupPC, loaded, frames,
                   evicted, panicked, messages, accepted, call, announced, main>>

\* g cannot make its next call now, and the goroutines it waits for
Blocked(g) ==
    /\ mu[g].path /= <<>> \/ mu[g].waiting
    /\ ~Granted(g, NextEvent(g))
BlockedBy(g) ==
    IF NextEvent(g).e = "Lock" THEN Holders(NextEvent(g).m)
    ELSE Writers(NextEvent(g).m) \cup (Announced(NextEvent(g).m) \ {g})

\* some goroutines wait for each other and will never go on
Deadlock ==
    /\ ~panicked
    /\ \E S \in SUBSET Goroutines :
           /\ S /= {}
           /\ \A g \in S : Blocked(g) /\ BlockedBy(g) \cap S /= {}

\* ------------------------------------------------------------ specifications
\* A database left by an earlier run of the relay: alice and bob registered
\* from the same device, and one public room that alice created
SeededUsers ==
    [id \in UserIDs |->
        IF id = 1 THEN UserRow("alice", HashValue("fpA"), HashValue("apple-arrow"))
        ELSE IF id = 2 THEN UserRow("bob", HashValue("fpA"), HashValue("badge-beach"))
        ELSE NoRow]

InitSeeded ==
    /\ clients = {}
    /\ usernames = [u \in ValidUsernames |-> NoClient]
    /\ userIDs = [id \in UserIDs |-> NoClient]
    /\ rooms = [r \in RoomIDs |-> NoRoom]
    /\ Username = [c \in Clients |-> ""]
    /\ UserID = [c \in Clients |-> NoUserID]
    /\ crooms = [c \in Clients |-> {}]
    /\ Send = [c \in Clients |-> <<>>]
    /\ closed = [c \in Clients |-> FALSE]
    /\ reader = [c \in Clients |-> "new"]
    /\ reply = [c \in Clients |-> NoEnv]
    /\ users = SeededUsers
    /\ roomRows = [r \in RoomIDs |-> IF r = 1 THEN RoomRow(1, TRUE) ELSE NoRow]
    /\ memberRows = {<<1, 1>>}
    /\ pending = EmptyBag
    /\ nextUserID = 3
    /\ nextRoomID = 2
    /\ cleanupPC = "idle"
    /\ loaded = FALSE
    /\ frames = [c \in Clients |-> 0]
    /\ evicted = [c \in Clients |-> NotEvicted]
    /\ panicked = FALSE
    /\ NoMessages

\* the steps the specifications without messages share: startup, attach and
\* detach, the pumps, the handlers' replies and the store goroutines
Common ==
    \/ \E getAllOK \in BOOLEAN : LoadRooms(getAllOK, {}) /\ UNCHANGED msgVars
    \/ \E c \in Clients : AddClient(c) /\ UNCHANGED msgVars
    \/ \E c \in Clients : RemoveClient(c) /\ UNCHANGED msgVars
    \/ \E c \in Clients : WritePump(c) /\ UNCHANGED msgVars
    \/ \E c \in Clients : HandlerReply(c) /\ UNCHANGED msgVars
    \/ \E op \in BagToSet(pending) : RunPending(op) /\ UNCHANGED msgVars

\* Spec: the registration protocol on a fresh database; one username is
\* contested with every combination of credentials and store failures
Next ==
    \/ Common
    \/ \E c \in Clients, fp \in Fingerprints, rc \in InputRecovery,
          phrase \in RecoveryWords :
            RegisterUser(c, "alice", fp, rc, TRUE, TRUE, phrase) /\ UNCHANGED msgVars
    \/ \E c \in Clients, u \in {"alice", "al"}, ok \in BOOLEAN :
            RegisterUser(c, u, "", "", ok, ~ok, "apple-arrow") /\ UNCHANGED msgVars

Spec == Init /\ [][Next]_vars

\* SpecCleanup: registration and room creation interleaved with the cleanup job
NextCleanup ==
    \/ Common
    \/ \E c \in Clients :
            RegisterUser(c, "alice", "fpA", "", TRUE, TRUE, "apple-arrow")
            /\ UNCHANGED msgVars
    \/ \E c \in Clients, createOK \in BOOLEAN :
            CreateRoom(c, "general", TRUE, createOK) /\ UNCHANGED msgVars
    \/ \E long \in BOOLEAN : TimePasses(long) /\ UNCHANGED msgVars
    \/ \E ok \in BOOLEAN : CleanupOldMessages(ok) /\ UNCHANGED jobVars
    \/ \E ok \in BOOLEAN : CleanupInactiveRoomsJob(ok) /\ UNCHANGED jobVars
    \/ \E ok \in BOOLEAN : CleanupInactiveUsers(ok) /\ UNCHANGED jobVars

SpecCleanup == Init /\ [][NextCleanup]_vars

\* SpecRooms: returning users log in by fingerprint (evicting each other),
\* create private rooms, join and leave rooms, and disconnect
NextRooms ==
    \/ Common
    \/ \E c \in Clients, u \in ValidUsernames :
            RegisterUser(c, u, "fpA", "", TRUE, TRUE, "apple-arrow")
            /\ UNCHANGED msgVars
    \/ \E c \in Clients : CreateRoom(c, "general", FALSE, TRUE) /\ UNCHANGED msgVars
    \/ \E c \in Clients, r \in RoomIDs : JoinRoom(c, r) /\ UNCHANGED msgVars
    \/ \E c \in Clients, r \in RoomIDs : LeaveRoom(c, r) /\ UNCHANGED msgVars

SpecRooms == InitSeeded /\ [][NextRooms]_vars

\* SpecLoad: startup on any database an earlier run can have left: alice and
\* bob registered, every combination of stored rooms created by them, and any
\* membership rows for those rooms (a creator who left has no row)
InitLoad ==
    /\ clients = {}
    /\ usernames = [u \in ValidUsernames |-> NoClient]
    /\ userIDs = [id \in UserIDs |-> NoClient]
    /\ rooms = [r \in RoomIDs |-> NoRoom]
    /\ Username = [c \in Clients |-> ""]
    /\ UserID = [c \in Clients |-> NoUserID]
    /\ crooms = [c \in Clients |-> {}]
    /\ Send = [c \in Clients |-> <<>>]
    /\ closed = [c \in Clients |-> FALSE]
    /\ reader = [c \in Clients |-> "new"]
    /\ reply = [c \in Clients |-> NoEnv]
    /\ users = SeededUsers
    /\ roomRows \in [RoomIDs -> {NoRow} \cup {RoomRow(creator, isPublic) :
                                   creator \in {1, 2}, isPublic \in BOOLEAN}]
    /\ memberRows \in SUBSET {m \in RoomIDs \X {1, 2} : roomRows[m[1]].present}
    /\ pending = EmptyBag
    /\ nextUserID = 3
    /\ nextRoomID = MaxRooms + 1
    /\ cleanupPC = "idle"
    /\ loaded = FALSE
    /\ frames = [c \in Clients |-> 0]
    /\ evicted = [c \in Clients |-> NotEvicted]
    /\ panicked = FALSE
    /\ NoMessages

NextLoad ==
    \E getAllOK \in BOOLEAN, failed \in SUBSET RoomIDs :
        LoadRooms(getAllOK, failed) /\ UNCHANGED msgVars

SpecLoad == InitLoad /\ [][NextLoad]_vars

\* SpecMessages: alice and bob, both members of the stored public room, log
\* in, send room messages and direct messages, and disconnect.  A hub method
\* that takes h.mu.Lock() waits until no SendRoomMessage holds the RLock
\* (Unlocked).
InitMessages ==
    /\ clients = {}
    /\ usernames = [u \in ValidUsernames |-> NoClient]
    /\ userIDs = [id \in UserIDs |-> NoClient]
    /\ rooms = [r \in RoomIDs |-> NoRoom]
    /\ Username = [c \in Clients |-> ""]
    /\ UserID = [c \in Clients |-> NoUserID]
    /\ crooms = [c \in Clients |-> {}]
    /\ Send = [c \in Clients |-> <<>>]
    /\ closed = [c \in Clients |-> FALSE]
    /\ reader = [c \in Clients |-> "new"]
    /\ reply = [c \in Clients |-> NoEnv]
    /\ users = SeededUsers
    /\ roomRows = [r \in RoomIDs |-> IF r = 1 THEN RoomRow(1, TRUE) ELSE NoRow]
    /\ memberRows = {<<1, 1>>, <<1, 2>>}
    /\ pending = EmptyBag
    /\ nextUserID = 3
    /\ nextRoomID = 2
    /\ cleanupPC = "idle"
    /\ loaded = FALSE
    /\ frames = [c \in Clients |-> 0]
    /\ evicted = [c \in Clients |-> NotEvicted]
    /\ panicked = FALSE
    /\ NoMessages

NextMessages ==
    \/ LoadRooms(TRUE, {}) /\ Held
    \/ \E c \in Clients : Unlocked /\ AddClient(c) /\ Held
    \/ \E c \in Clients : Unlocked /\ RemoveClient(c) /\ Held
    \/ \E c \in Clients : WritePump(c) /\ Held
    \/ \E c \in Clients : HandlerReply(c) /\ Held
    \/ \E op \in BagToSet(pending) : RunPending(op) /\ Held
    \/ \E c \in Clients, u \in ValidUsernames :
            /\ Unlocked
            /\ RegisterUser(c, u, "fpA", "", TRUE, TRUE, "apple-arrow")
            /\ Held
    \/ \E c \in Clients, r \in RoomIDs, saveOK \in BOOLEAN :
            SendRoomMessage(c, r, "hi", saveOK) /\ Logged
    \/ \E c \in Clients : SendRoomMessageFanOut(c) /\ Logged
    \/ \E c \in Clients, to \in ValidUsernames, content \in Contents :
            SendDirectMessage(c, to, content) /\ Logged
    \/ \E c \in Clients : SendDirectMessageSend(c) /\ Logged

SpecMessages == InitMessages /\ [][NextMessages]_vars

\* SpecSend: room messages on the database of SpecRooms, where bob is not a
\* member of alice's room and the second room id is unknown
NextSend ==
    \/ LoadRooms(TRUE, {}) /\ UNCHANGED msgVars
    \/ \E c \in Clients : Unlocked /\ AddClient(c) /\ UNCHANGED msgVars
    \/ \E c \in Clients : Unlocked /\ RemoveClient(c) /\ UNCHANGED msgVars
    \/ \E c \in Clients : WritePump(c) /\ UNCHANGED msgVars
    \/ \E c \in Clients : HandlerReply(c) /\ UNCHANGED msgVars
    \/ \E op \in BagToSet(pending) : RunPending(op) /\ UNCHANGED msgVars
    \/ \E c \in Clients, u \in ValidUsernames :
            /\ Unlocked
            /\ RegisterUser(c, u, "fpA", "", TRUE, TRUE, "apple-arrow")
            /\ UNCHANGED msgVars
    \/ \E c \in Clients, r \in RoomIDs, content \in Contents, saveOK \in BOOLEAN :
            SendRoomMessage(c, r, content, saveOK) /\ UNCHANGED <<announced, main, mu>>
    \/ \E c \in Clients : SendRoomMessageFanOut(c) /\ UNCHANGED <<announced, main, mu>>

SpecSend == InitSeeded /\ [][NextSend]_vars

\* SpecCreate: alice and bob log in and create public and private rooms,
\* with and without a failure of the room store
NextCreate ==
    \/ LoadRooms(TRUE, {}) /\ UNCHANGED msgVars
    \/ \E c \in Clients : AddClient(c) /\ UNCHANGED msgVars
    \/ \E c \in Clients : RemoveClient(c) /\ UNCHANGED msgVars
    \/ \E c \in Clients : WritePump(c) /\ UNCHANGED msgVars
    \/ \E c \in Clients : HandlerReply(c) /\ UNCHANGED msgVars
    \/ \E op \in BagToSet(pending) : RunPending(op) /\ UNCHANGED msgVars
    \/ \E c \in Clients, u \in ValidUsernames :
            RegisterUser(c, u, "fpA", "", TRUE, TRUE, "apple-arrow")
            /\ UNCHANGED msgVars
    \/ \E c \in Clients, name \in RoomNames, isPublic \in BOOLEAN,
          createOK \in BOOLEAN :
            CreateRoom(c, name, isPublic, createOK) /\ UNCHANGED msgVars

SpecCreate == InitSeeded /\ [][NextCreate]_vars

\* SpecHistory: a database with alice's room 1 and bob's room 2 and up to
\* MaxStored messages spread over the two rooms; alice and bob log in and ask
\* for the history of either room with several limits and bounds
MaxStored == 4
Limits == {-1, 0, 1, 2, 100, 101, 1000}
Befores == {0, 2, 3}

StoredMessage(i, room) ==
    MessageRow(i, room, room, IF room = 1 THEN "alice" ELSE "bob", "hi", i)

StoredHistories ==
    UNION {{[i \in 1..k |-> StoredMessage(i, f[i])] : f \in [1..k -> {1, 2}]}
              : k \in 0..MaxStored}

\* the relay starts on a database that holds alice, bob, alice's room 1,
\* bob's room 2 and the message rows `history`
InitStored(history) ==
    /\ clients = {}
    /\ usernames = [u \in ValidUsernames |-> NoClient]
    /\ userIDs = [id \in UserIDs |-> NoClient]
    /\ rooms = [r \in RoomIDs |-> NoRoom]
    /\ Username = [c \in Clients |-> ""]
    /\ UserID = [c \in Clients |-> NoUserID]
    /\ crooms = [c \in Clients |-> {}]
    /\ Send = [c \in Clients |-> <<>>]
    /\ closed = [c \in Clients |-> FALSE]
    /\ reader = [c \in Clients |-> "new"]
    /\ reply = [c \in Clients |-> NoEnv]
    /\ users = SeededUsers
    /\ roomRows = [r \in RoomIDs |-> IF r \in {1, 2} THEN RoomRow(r, TRUE) ELSE NoRow]
    /\ memberRows = {<<1, 1>>, <<2, 2>>}
    /\ pending = EmptyBag
    /\ nextUserID = 3
    /\ nextRoomID = 3
    /\ cleanupPC = "idle"
    /\ loaded = FALSE
    /\ frames = [c \in Clients |-> 0]
    /\ evicted = [c \in Clients |-> NotEvicted]
    /\ panicked = FALSE
    /\ messages = history
    /\ accepted = Len(history)
    /\ call = [c \in Clients |-> NoCall]
    /\ announced = [c \in Clients |-> {}]
    /\ main = "serving"
    /\ mu = NoLocks

InitHistory == \E history \in StoredHistories : InitStored(history)

NextHistory ==
    \/ LoadRooms(TRUE, {}) /\ UNCHANGED msgVars
    \/ \E c \in Clients : AddClient(c) /\ UNCHANGED msgVars
    \/ \E c \in Clients : HandlerReply(c) /\ UNCHANGED msgVars
    \/ \E c \in Clients, u \in ValidUsernames :
            RegisterUser(c, u, "fpA", "", TRUE, TRUE, "apple-arrow")
            /\ UNCHANGED msgVars
    \/ \E c \in Clients, r \in RoomIDs, limit \in Limits, pBefore \in Befores :
            GetRoomHistory(c, r, limit, pBefore) /\ UNCHANGED <<announced, main, mu>>
    \/ \E c \in Clients, getOK \in BOOLEAN :
            GetRoomHistoryQuery(c, getOK) /\ UNCHANGED <<announced, main, mu>>

SpecHistory == InitHistory /\ [][NextHistory]_vars

\* SpecStore: the tables under every store operation of the relay: alice and
\* bob log in, join rooms and send room messages (inserts, some of them from
\* goroutines that run late), time passes, and the cleanup job deletes old
\* messages, inactive rooms and inactive users
InitStore == InitStored(<<StoredMessage(1, 1), StoredMessage(2, 2)>>)

NextStore ==
    \/ LoadRooms(TRUE, {}) /\ UNCHANGED msgVars
    \/ \E c \in Clients : AddClient(c) /\ UNCHANGED msgVars
    \/ \E c \in Clients : HandlerReply(c) /\ UNCHANGED msgVars
    \/ \E op \in BagToSet(pending) : RunPending(op) /\ UNCHANGED msgVars
    \/ \E c \in Clients :
            /\ Unlocked
            /\ RegisterUser(c, IF c = 1 THEN "alice" ELSE "bob", "fpA", "", TRUE,
                            TRUE, "apple-arrow")
            /\ UNCHANGED msgVars
    \/ \E c \in Clients, r \in RoomIDs :
            Unlocked /\ JoinRoom(c, r) /\ UNCHANGED msgVars
    \/ \E c \in Clients, r \in RoomIDs :
            SendRoomMessage(c, r, "hi", TRUE) /\ UNCHANGED <<announced, main, mu>>
    \/ \E c \in Clients : SendRoomMessageFanOut(c) /\ UNCHANGED <<announced, main, mu>>
    \/ TimePasses(TRUE) /\ UNCHANGED msgVars
    \/ CleanupOldMessages(TRUE) /\ UNCHANGED jobVars
    \/ CleanupInactiveRoomsJob(TRUE) /\ UNCHANGED jobVars
    \/ CleanupInactiveUsers(TRUE) /\ UNCHANGED jobVars

SpecStore == InitStore /\ [][NextStore]_vars

\* SpecShutdown: the relay serves logins while the cleanup job ticks, with
\* and without store failures, until main leaves http.ListenAndServe
NextShutdown ==
    \/ LoadRooms(TRUE, {}) /\ UNCHANGED msgVars
    \/ \E c \in Clients : AddClient(c) /\ UNCHANGED msgVars
    \/ \E c \in Clients : HandlerReply(c) /\ UNCHANGED msgVars
    \/ \E op \in BagToSet(pending) : RunPending(op) /\ UNCHANGED msgVars
    \/ \E c \in Clients :
            RegisterUser(c, IF c = 1 THEN "alice" ELSE "bob", "fpA", "", TRUE,
                         TRUE, "apple-arrow")
            /\ UNCHANGED msgVars
    \/ \E long \in BOOLEAN : TimePasses(long) /\ UNCHANGED msgVars
    \/ \E ok \in BOOLEAN : CleanupOldMessages(ok) /\ UNCHANGED jobVars
    \/ \E ok \in BOOLEAN : CleanupInactiveRoomsJob(ok) /\ UNCHANGED jobVars
    \/ \E ok \in BOOLEAN : CleanupInactiveUsers(ok) /\ UNCHANGED jobVars
    \/ Shutdown

SpecShutdown == InitStore /\ [][NextShutdown]_vars

\* SpecAccount: the life of one account on a fresh database: "alice" is
\* registered, logged in again with the same or another fingerprint, with and
\* without the recovery code, with and without a failure of the store's
\* write, and removed by the cleanup job once the inactivity timeout passed
NextAccount ==
    \/ LoadRooms(TRUE, {}) /\ UNCHANGED msgVars
    \/ \E c \in Clients : AddClient(c) /\ UNCHANGED msgVars
    \/ \E c \in Clients : HandlerReply(c) /\ UNCHANGED msgVars
    \/ \E op \in BagToSet(pending) : RunPending(op) /\ UNCHANGED msgVars
    \/ \E c \in Clients, fp \in {"fpA", "fpX"}, rc \in {"", "apple-arrow"},
          writeOK \in BOOLEAN :
            RegisterUser(c, "alice", fp, rc, TRUE, writeOK, "apple-arrow")
            /\ UNCHANGED msgVars
    \/ TimePasses(TRUE) /\ UNCHANGED msgVars
    \/ CleanupOldMessages(TRUE) /\ UNCHANGED jobVars
    \/ CleanupInactiveRoomsJob(TRUE) /\ UNCHANGED jobVars
    \/ CleanupInactiveUsers(TRUE) /\ UNCHANGED jobVars

SpecAccount == Init /\ [][NextAccount]_vars

\* SpecNoStore: a hub without stores (hub.New() alone): sessions register
\* names, change them and disconnect
InitNoStore ==
    /\ clients = {}
    /\ usernames = [u \in ValidUsernames |-> NoClient]
    /\ userIDs = [id \in ConnUserIDs |-> NoClient]
    /\ rooms = [r \in RoomIDs |-> NoRoom]
    /\ Username = [c \in Clients |-> ""]
    /\ UserID = [c \in Clients |-> NoUserID]
    /\ crooms = [c \in Clients |-> {}]
    /\ Send = [c \in Clients |-> <<>>]
    /\ closed = [c \in Clients |-> FALSE]
    /\ reader = [c \in Clients |-> "new"]
    /\ reply = [c \in Clients |-> NoEnv]
    /\ users = [id \in UserIDs |-> NoRow]
    /\ roomRows = [r \in RoomIDs |-> NoRow]
    /\ memberRows = {}
    /\ pending = EmptyBag
    /\ nextUserID = 1
    /\ nextRoomID = 1
    /\ cleanupPC = "idle"
    /\ loaded = FALSE
    /\ frames = [c \in Clients |-> 0]
    /\ evicted = [c \in Clients |-> NotEvicted]
    /\ panicked = FALSE
    /\ NoMessages

NextNoStore ==
    \/ LoadRooms(TRUE, {}) /\ UNCHANGED msgVars
    \/ \E c \in Clients : AddClient(c) /\ UNCHANGED msgVars
    \/ \E c \in Clients : RemoveClient(c) /\ UNCHANGED msgVars
    \/ \E c \in Clients : WritePump(c) /\ UNCHANGED msgVars
    \/ \E c \in Clients : HandlerReply(c) /\ UNCHANGED msgVars
    \/ \E c \in Clients, u \in InputUsernames :
            RegisterUserNoStore(c, u) /\ UNCHANGED msgVars

SpecNoStore == InitNoStore /\ [][NextNoStore]_vars

\* h.userStore != nil.  The model tells a hub with stores from a hub without
\* by the keys h.userIDs can hold: the ids of the users table, or connection
\* ids (`c.UserID = c.ID`)
UserStoreConfigured == DOMAIN userIDs = UserIDs

\* SpecRegister: registration with every combination of credentials and
\* store failures, on a hub with a fresh database or on a hub without stores
InitRegister == Init \/ InitNoStore

NextRegister ==
    \/ LoadRooms(TRUE, {}) /\ UNCHANGED msgVars
    \/ \E c \in Clients : AddClient(c) /\ UNCHANGED msgVars
    \/ \E c \in Clients : RemoveClient(c) /\ UNCHANGED msgVars
    \/ \E c \in Clients : HandlerReply(c) /\ UNCHANGED msgVars
    \/ \E op \in BagToSet(pending) : RunPending(op) /\ UNCHANGED msgVars
    \/ \E c \in Clients, fp \in Fingerprints, rc \in InputRecovery,
          phrase \in RecoveryWords :
            /\ UserStoreConfigured
            /\ RegisterUser(c, "alice", fp, rc, TRUE, TRUE, phrase)
            /\ UNCHANGED msgVars
    \/ \E c \in Clients, u \in {"alice", "al"}, ok \in BOOLEAN :
            /\ UserStoreConfigured
            /\ RegisterUser(c, u, "", "", ok, ~ok, "apple-arrow")
            /\ UNCHANGED msgVars
    \/ \E c \in Clients, u \in InputUsernames :
            /\ ~UserStoreConfigured
            /\ RegisterUserNoStore(c, u)
            /\ UNCHANGED msgVars

SpecRegister == InitRegister /\ [][NextRegister]_vars

\* SpecSweep: the relay with the hub's own room cleanup routine: alice and
\* bob log in and send room messages (which refresh a room's activity), time
\* passes, and Hub.CleanupInactiveRooms runs with and without store failures
NextSweep ==
    \/ LoadRooms(TRUE, {}) /\ UNCHANGED msgVars
    \/ \E c \in Clients : AddClient(c) /\ UNCHANGED msgVars
    \/ \E c \in Clients : HandlerReply(c) /\ UNCHANGED msgVars
    \/ \E op \in BagToSet(pending) : RunPending(op) /\ UNCHANGED msgVars
    \/ \E c \in Clients :
            /\ Unlocked
            /\ RegisterUser(c, IF c = 1 THEN "alice" ELSE "bob", "fpA", "", TRUE,
                            TRUE, "apple-arrow")
            /\ UNCHANGED msgVars
    \/ \E c \in Clients, r \in RoomIDs :
            SendRoomMessage(c, r, "hi", TRUE) /\ UNCHANGED <<announced, main, mu>>
    \/ \E c \in Clients : SendRoomMessageFanOut(c) /\ UNCHANGED <<announced, main, mu>>
    \/ TimePasses(FALSE) /\ UNCHANGED msgVars
    \/ \E cleanupOK \in BOOLEAN : CleanupInactiveRooms(cleanupOK) /\ UNCHANGED jobVars
    \/ \E getAllOK \in BOOLEAN :
            CleanupInactiveRoomsSweep(getAllOK) /\ UNCHANGED msgVars

SpecSweep == InitStore /\ [][NextSweep]_vars

\* SpecPaging: alice's session is logged in on a relay whose store holds room
\* 1 with up to MaxStored messages, some of them with the same created_at;
\* the session pages through the room's history
StampedHistories ==
    UNION {{[i \in 1..k |-> MessageRow(i, 1, 1, "alice", "hi", at[i])] :
               at \in {f \in [1..k -> 1..k] :
                          \A i \in 1..k, j \in 1..k : i < j => f[i] <= f[j]}}
              : k \in 0..MaxStored}

InitPaging ==
    \E history \in StampedHistories :
        /\ clients = {1}
        /\ usernames = [u \in ValidUsernames |-> IF u = "alice" THEN 1 ELSE NoClient]
        /\ userIDs = [id \in UserIDs |-> IF id = 1 THEN 1 ELSE NoClient]
        /\ rooms = [r \in RoomIDs |->
                       IF r = 1 THEN [NewRoom(1, TRUE) EXCEPT !.members = {1, 2}]
                       ELSE NoRoom]
        /\ Username = [c \in Clients |-> IF c = 1 THEN "alice" ELSE ""]
        /\ UserID = [c \in Clients |-> IF c = 1 THEN 1 ELSE NoUserID]
        /\ crooms = [c \in Clients |-> {}]
        /\ Send = [c \in Clients |-> <<>>]
        /\ closed = [c \in Clients |-> FALSE]
        /\ reader = [c \in Clients |-> IF c = 1 THEN "open" ELSE "new"]
        /\ reply = [c \in Clients |-> NoEnv]
        /\ users = SeededUsers
        /\ roomRows = [r \in RoomIDs |-> IF r = 1 THEN RoomRow(1, TRUE) ELSE NoRow]
        /\ memberRows = {<<1, 1>>, <<1, 2>>}
        /\ pending = EmptyBag
        /\ nextUserID = 3
        /\ nextRoomID = 2
        /\ cleanupPC = "idle"
        /\ loaded = TRUE
        /\ frames = [c \in Clients |-> 0]
        /\ evicted = [c \in Clients |-> NotEvicted]
        /\ panicked = FALSE
        /\ messages = history
        /\ accepted = Len(history)
        /\ call = [c \in Clients |-> NoCall]
        /\ announced = [c \in Clients |-> {}]
        /\ main = "serving"
        /\ mu = NoLocks

\* the last envelope the session has received
LastResponse(c) == Send[c][Len(Send[c])]

\* the next room_history request of a session that pages through room 1: no
\* bound at first, then `before` = the timestamp of the oldest (first) message
\* of the previous response, for as long as that response says has_more
PageRequest(c, limit) ==
    /\ Len(Send[c]) < sendBufferSize
    /\ IF Send[c] = <<>> THEN TRUE
       ELSE LastResponse(c).type = "room_history_response" /\ LastResponse(c).has_more
    /\ GetRoomHistory(c, 1, limit,
                      IF Send[c] = <<>> THEN 0 ELSE LastResponse(c).messages[1].ts)

NextPaging ==
    \/ \E c \in Clients, limit \in {1, 2} :
            PageRequest(c, limit) /\ UNCHANGED <<announced, main, mu>>
    \/ \E c \in Clients, getOK \in BOOLEAN :
            GetRoomHistoryQuery(c, getOK) /\ UNCHANGED <<announced, main, mu>>
    \/ \E c \in Clients : HandlerReply(c) /\ UNCHANGED msgVars

SpecPaging == InitPaging /\ [][NextPaging]_vars

\* SpecLocks: the hub with its mutexes: every operation is entered with its
\* first mutex call, where its effect on the hub's data takes place, and goes
\* on call by call along its code path, so that the goroutines of the two
\* connections and of main interleave between any two calls.  Sessions stay
\* connected (Hub.RemoveClient is Lock, Unlock like Hub.AddClient)
NextLocks ==
    \/ /\ LoadRooms(TRUE, {})
       /\ Enter(MainGoroutine, LoadRoomsPath)
       /\ UNCHANGED <<messages, accepted, call, announced, main>>
    \/ \E c \in Clients :
            /\ AddClient(c)
            /\ Enter(c, AddClientPath)
            /\ UNCHANGED <<messages, accepted, call, announced, main>>
    \/ \E c \in Clients : HandlerReply(c) /\ mu[c] = NoPath /\ UNCHANGED msgVars
    \/ \E op \in BagToSet(pending) : RunPending(op) /\ UNCHANGED msgVars
    \/ \E c \in Clients :
            /\ RegisterUser(c, IF c = 1 THEN "alice" ELSE "bob", "fpA", "", TRUE,
                            TRUE, "apple-arrow")
            /\ Enter(c, RegisterUserPath(IF c = 1 THEN "alice" ELSE "bob", "fpA", "",
                                         TRUE, TRUE))
            /\ UNCHANGED <<messages, accepted, call, announced, main>>
    \/ \E c \in Clients :
            /\ CreateRoom(c, "lobby", TRUE, TRUE)
            /\ Enter(c, CreateRoomPath(c, "lobby", TRUE, TRUE))
            /\ UNCHANGED <<messages, accepted, call, announced, main>>
    \/ \E c \in Clients :
            /\ JoinRoom(c, 1)
            /\ Enter(c, JoinRoomPath(c, 1))
            /\ UNCHANGED <<messages, accepted, call, announced, main>>
    \/ \E c \in Clients :
            /\ LeaveRoom(c, 1)
            /\ Enter(c, LeaveRoomPath(c, 1))
            /\ UNCHANGED <<messages, accepted, call, announced, main>>
    \/ \E c \in Clients :
            /\ SendRoomMessage(c, 1, "hi", TRUE)
            /\ Enter(c, SendRoomMessagePath(c, 1))
            /\ UNCHANGED <<announced, main>>
    \/ \E c \in Clients :
            /\ Act(c, "fanout")
            /\ SendRoomMessageFanOut(c)
            /\ UNCHANGED <<announced, main>>
    \/ \E c \in Clients :
            /\ GetRoomHistory(c, 1, 1, 0)
            /\ Enter(c, GetRoomHistoryPath(c, 1, "query"))
            /\ UNCHANGED <<announced, main>>
    \/ \E c \in Clients :
            /\ Act(c, "query")
            /\ GetRoomHistoryQuery(c, TRUE)
            /\ UNCHANGED <<announced, main>>
    \/ TimePasses(FALSE) /\ UNCHANGED msgVars
    \/ /\ CleanupInactiveRooms(TRUE)
       /\ Enter(MainGoroutine, CleanupInactiveRoomsPath(TRUE))
       /\ UNCHANGED <<accepted, call, announced, main>>
    \/ /\ Act(MainGoroutine, "sweep")
       /\ CleanupInactiveRoomsSweep(TRUE)
       /\ UNCHANGED <<messages, accepted, call, announced, main>>
    \/ \E g \in Goroutines : Proceed(g)
    \/ \E g \in Goroutines : WaitForLock(g)

SpecLocks == InitSeeded /\ [][NextLocks]_vars

\* ------------------------------------------------------------------ listings
\* Hub.GetUserList: one entry per key of h.usernames; the user id is the
\* client's UserID when the client is in h.clients and has one, else the
\* connection id itself
GetUserList ==
    {[Username |-> u,
      UserID |-> IF usernames[u] \in clients /\ UserID[usernames[u]] /= NoUserID
                 THEN UserID[usernames[u]] ELSE 0 - usernames[u]] :
        u \in {x \in ValidUsernames : usernames[x] /= NoClient}}

\* Room.Info: the RoomInfo of the in-memory room (name and creator's username
\* are left out)
RoomInfo(r) ==
    [RoomID |-> r, CreatorID |-> rooms[r].CreatorID,
     MemberCount |-> Cardinality(rooms[r].members), IsPublic |-> rooms[r].IsPublic]

\* GetRoomList as it would be without the visibility test
GetRoomList_AllRooms(c) ==
    {RoomInfo(r) : r \in {x \in RoomIDs : rooms[x].present}}

\* Hub.GetRoomList(c): the rooms of h.rooms that are public or have the
\* caller's member id (c.UserID, or c.ID when that is empty) as a member
GetRoomList(c) ==
    {RoomInfo(r) : r \in {x \in RoomIDs :
                            /\ rooms[x].present
                            /\ (rooms[x].IsPublic \/ MemberID(c) \in rooms[x].members)}}

\* =================================================================== claims

\* C1: at every reachable state no two sessions of the sessions index hold
\* the same non-empty username.
C1_UniqueUsernames ==
    \A a \in clients, b \in clients :
        (a /= b /\ Username[a] /= "") => Username[a] /= Username[b]

\* C2: at every reachable state every session S of the sessions index with a
\* username has usernames[S.Username] = S.ID and userIDs[S.UserID] = S.ID.
C2_IndexesPointBack ==
    \A s \in clients :
        Username[s] /= "" =>
            /\ usernames[Username[s]] = s
            /\ UserID[s] \in UserIDs /\ userIDs[UserID[s]] = s

\* C3: for a username that exists in the user store, RegisterUser binds the
\* calling session only if a non-empty fingerprint with the stored hash, or a
\* recovery code with the stored hash, is supplied; otherwise nothing is bound
\* and the result is INVALID_RECOVERY (a recovery code was supplied) or
\* RECOVERY_REQUIRED (none was), online or not.
C3_CredentialGate ==
    [][\A c \in Clients :
         frames'[c] /= frames[c] =>
           \A u \in InputUsernames, fp \in Fingerprints, rc \in InputRecovery,
              phrase \in RecoveryWords, writeOK \in BOOLEAN :
             LET id == GetByUsername(u)
                 fpMatch == fp /= "" /\ users[id].fingerprint_hash = HashValue(fp)
                 rcMatch == rc /= "" /\ users[id].recovery_code_hash = HashValue(rc)
             IN  (id /= NoUserID /\ ~(fpMatch \/ rcMatch)
                    /\ RegisterUser(c, u, fp, rc, TRUE, writeOK, phrase))
                 => /\ Username'[c] = Username[c] /\ UserID'[c] = UserID[c]
                    /\ usernames' = usernames /\ userIDs' = userIDs
                    /\ clients' = clients
                    /\ reply'[c] = RegisterAckError(IF rc /= "" THEN "INVALID_RECOVERY"
                                                    ELSE "RECOVERY_REQUIRED")
    ]_vars

\* C3's case: a request without credentials for a stored username has just
\* been refused while another session holds the name
C3_Refused ==
    \E c \in Clients :
        /\ reply[c] = RegisterAckError("RECOVERY_REQUIRED")
        /\ GetByUsername("alice") /= NoUserID
        /\ usernames["alice"] \notin {NoClient, c}

\* C4: once E has logged in as a username held by D and evicted D, every
\* GetUserList taken while E stays connected under that name has exactly one
\* entry for the name, carrying E's user id, also after RemoveClient(D).
C4_OneEntryForOwner ==
    \A d \in Clients :
        LET e == evicted[d].by
            u == evicted[d].name
        IN  (e /= NoClient /\ e \in clients /\ Username[e] = u)
            => {x \in GetUserList : x.Username = u}
                 = {[Username |-> u, UserID |-> UserID[e]]}

\* C5 (as stated): whenever a login evicts a session, whatever its queue
\* held, Kicked is the last envelope enqueued before the close, the evictee
\* is gone from sessions, usernames and userIDs, and nothing is enqueued to
\* it afterwards.
C5_KickedAlwaysEnqueued ==
    [][\A d \in Clients :
         /\ (evicted[d].by = NoClient /\ evicted'[d].by /= NoClient)
              => /\ Send'[d] = Append(Send[d], Kicked)
                 /\ closed'[d]
                 /\ d \notin clients'
                 /\ \A u \in ValidUsernames : usernames'[u] /= d
                 /\ \A id \in UserIDs : userIDs'[id] /= d
         /\ closed[d] => Len(Send'[d]) <= Len(Send[d])
    ]_vars

\* C5 (amended): on eviction Kicked is appended to the evictee's queue before
\* the close exactly when the queue holds fewer than sendBufferSize envelopes
\* (a full queue is left as it is); in the same step the evictee is closed,
\* gone from sessions, and neither the contested username nor the evictee's
\* user id maps to it any more; a closed queue never grows.
C5_KickedSendOrDrop ==
    [][\A d \in Clients :
         /\ (evicted[d].by = NoClient /\ evicted'[d].by /= NoClient)
              => /\ Send'[d] = IF Len(Send[d]) < sendBufferSize
                               THEN Append(Send[d], Kicked) ELSE Send[d]
                 /\ closed'[d]
                 /\ d \notin clients'
                 /\ usernames'[evicted'[d].name] /= d
                 /\ UserID[d] /= NoUserID => userIDs'[UserID[d]] /= d
         /\ closed[d] => Len(Send'[d]) <= Len(Send[d])
    ]_vars

\* C5's case: a session was evicted while its queue was full, so the queue
\* was closed without a Kicked envelope in it
C5_EvictedWithFullQueue ==
    \E d \in Clients :
        /\ evicted[d].by /= NoClient
        /\ closed[d]
        /\ Len(Send[d]) = sendBufferSize
        /\ \A i \in 1..Len(Send[d]) : Send[d][i] /= Kicked

\* C6: closing is idempotent: when RemoveClient runs for a session that an
\* eviction has already closed, it completes normally, the session stays
\* closed and the hub keeps running.
C6_CloseIdempotent ==
    \A c \in Clients :
        (evicted[c].by /= NoClient /\ reader[c] = "exited")
            => closed[c] /\ ~panicked

C8_MembersMatchStore ==
    (\A op \in BagToSet(pending) : op.op \notin {"MemberAdd", "MemberRemove"})
        => \A r \in RoomIDs :
               rooms[r].present => rooms[r].members = GetRoomMembers(r)

\* C9: after a LoadRooms in which no store call failed, the room map holds
\* exactly the rooms of the room store and each room's member set equals the
\* membership store's set for it, for every stored state.
C9_LoadedEqualsStore ==
    [][LoadRooms(TRUE, {})
         => \A r \in RoomIDs :
                /\ rooms'[r].present <=> roomRows[r].present
                /\ roomRows[r].present => rooms'[r].members = GetRoomMembers(r)
    ]_vars

\* C10: at every state after LoadRooms a room id is in the in-memory room
\* map if and only if the room store has a row for it, also after the
\* cleanup job has deleted rooms or users.
C10_RoomInMemoryIffStored ==
    loaded => \A r \in RoomIDs : rooms[r].present <=> roomRows[r].present

\* the step in which the loop of connection c's SendRoomMessage runs
RoomFanOutStep(c) == call[c].op = "room" /\ call'[c] = NoCall

\* C11: the fan-out of a successful SendRoomMessage sends the one envelope
\* (same message_id and timestamp for all) exactly once to every session of
\* h.clients that is registered as a current member of the room, the sender
\* included, and leaves every other session's queue as it was.  A send is
\* Client.SendMessage: the envelope is appended unless the queue is full.
C11_OnePerMemberSession ==
    [][\A c \in Clients :
         RoomFanOutStep(c) =>
           LET env == call[c].env
               r == rooms[env.room]
           IN  \A s \in Clients :
                 Send'[s] = IF s \in clients /\ Username[s] /= ""
                               /\ MemberID(s) \in r.members
                            THEN SendMessage(Send[s], env)
                            ELSE Send[s]
    ]_vars

\* C12: SendRoomMessage from an unregistered session fails with
\* NOT_REGISTERED, to an unknown room with ROOM_NOT_FOUND, and from a user who
\* is not a member of the room with NOT_IN_ROOM; in each case no message is
\* stored, no queue changes and no fan-out is left to run.
C12_RoomMessageErrors ==
    [][\A c \in Clients :
         frames'[c] /= frames[c] =>
           \A roomID \in RoomIDs, content \in Contents, saveOK \in BOOLEAN :
             SendRoomMessage(c, roomID, content, saveOK) =>
               LET code == IF Username[c] = "" THEN "NOT_REGISTERED"
                           ELSE IF ~rooms[roomID].present THEN "ROOM_NOT_FOUND"
                           ELSE IF UserID[c] \notin rooms[roomID].members
                           THEN "NOT_IN_ROOM"
                           ELSE "ok"
               IN  code /= "ok" =>
                     /\ reply'[c] = ErrorEnv(code, "")
                     /\ messages' = messages /\ accepted' = accepted
                     /\ Send' = Send
                     /\ call' = call /\ pending' = pending
    ]_vars

\* C12's case: bob, registered and not a member of the existing room 1, has
\* just been refused with NOT_IN_ROOM, nothing stored and no queue touched
C12_NonMemberRefused ==
    \E c \in Clients :
        /\ reply[c] = ErrorEnv("NOT_IN_ROOM", "")
        /\ Username[c] = "bob" /\ rooms[1].present /\ UserID[c] \notin rooms[1].members
        /\ messages = <<>> /\ call[c] = NoCall

\* C13: within one room, if the hub accepted (stored, timestamped) m1 before
\* m2, every queue that holds both holds m1 before m2, whatever the
\* interleaving of the senders' SendRoomMessage calls: no queue holds a room
\* message in front of one of the same room with an earlier timestamp.
C13_RoomOrderInQueue ==
    \A s \in Clients :
        \A i \in 1..Len(Send[s]), j \in 1..Len(Send[s]) :
            (/\ i < j
             /\ Send[s][i].type = "room_message"
             /\ Send[s][j].type = "room_message"
             /\ Send[s][i].room = Send[s][j].room)
                => Send[s][i].ts <= Send[s][j].ts

\* the step in which connection c's handler performs the sends of its call
\* (the loop of SendRoomMessage, or the send of SendDirectMessage)
MessageSendStep(c) == call[c] /= NoCall /\ call'[c] = NoCall

\* the step in which RegisterUser binds connection c
RegisteredStep(c) ==
    /\ frames'[c] /= frames[c]
    /\ reply'[c].type = "register_ack" /\ reply'[c].info \in {"new", "login"}

\* C14 (as stated): whenever a direct or room message from session U is
\* enqueued to another session, that observer's channel has accepted the
\* UserJoined envelope of U's user before (and no UserLeft for it since).
C14_JoinedBeforeMessages ==
    [][\A u \in Clients, o \in Clients :
         (MessageSendStep(u) /\ o /= u /\ Send'[o] /= Send[o])
            => call[u].env.uid \in announced[o]
    ]_vars

\* C14 (amended): the UserJoined broadcast is part of the registration step,
\* offered (send-or-drop) to every other session registered at that moment,
\* and a session's messages are sent only between that step and its
\* RemoveClient, whose UserLeft broadcast is offered to every other registered
\* session after the session's last handler has returned.
C14_BroadcastsBracketMessages ==
    [][\A u \in Clients :
         /\ MessageSendStep(u) => Username[u] /= "" /\ reader[u] = "open"
         /\ RegisteredStep(u) =>
              \A o \in clients' \ {u} :
                 Username[o] /= "" =>
                    Send'[o] = SendMessage(Send[o], UserJoined(UserID'[u], Username'[u]))
         /\ (reader[u] = "open" /\ reader'[u] = "exited") =>
              /\ call[u] = NoCall
              /\ Username[u] /= "" =>
                   \A o \in clients \ {u} :
                      Username[o] /= "" =>
                         Send'[o] = SendMessage(Send[o], UserLeft(UserID[u], Username[u]))
    ]_vars

\* C14's case: an observer's queue holds the UserJoined of a user in front of
\* a message from that user
C14_JoinedThenMessage ==
    \E o \in Clients :
        \E i \in 1..Len(Send[o]), j \in 1..Len(Send[o]) :
            /\ i < j
            /\ Send[o][i].type = "user_joined"
            /\ Send[o][j].type \in {"direct_message", "room_message"}
            /\ Send[o][j].uid = Send[o][i].uid

\* C15: SendDirectMessage from an unregistered session fails with
\* NOT_REGISTERED; from a registered session to a username that h.usernames
\* does not bind to a session of h.clients it fails with USER_NOT_FOUND and
\* nothing is enqueued or stored; otherwise its send enqueues (Client.SendMessage)
\* one direct_message envelope with the sender's username, user id and the
\* content to the session the username is bound to, and to no other.
C15_DirectMessageDelivery ==
    [][\A c \in Clients :
         /\ frames'[c] /= frames[c] =>
              \A to \in ValidUsernames, content \in Contents :
                SendDirectMessage(c, to, content) =>
                  IF Username[c] = ""
                  THEN /\ reply'[c] = ErrorEnv("NOT_REGISTERED", to)
                       /\ call' = call /\ Send' = Send /\ messages' = messages
                  ELSE IF usernames[to] \notin clients
                  THEN /\ reply'[c] = ErrorEnv("USER_NOT_FOUND", to)
                       /\ call' = call /\ Send' = Send /\ messages' = messages
                  ELSE /\ reply'[c] = NoEnv
                       /\ call'[c].op = "direct" /\ call'[c].to = usernames[to]
                       /\ call'[c].env = DirectMessage(UserID[c], Username[c], content)
         /\ (call[c].op = "direct" /\ call'[c] = NoCall) =>
              /\ ~panicked'
              /\ Send' = [Send EXCEPT ![call[c].to] = SendMessage(@, call[c].env)]
              /\ messages' = messages
    ]_vars

\* C16: the two steps of SendDirectMessage leave the room map with every
\* room's member set, the message store and the hub indices (h.clients,
\* h.usernames, h.userIDs) unchanged; the two steps of SendRoomMessage leave
\* h.clients, h.usernames, h.userIDs, every session's Username, UserID and
\* joined-room set and every room's member set unchanged.
C16_MessageFrame ==
    [][\A c \in Clients :
         /\ ((\E to \in ValidUsernames, content \in Contents :
                  frames'[c] /= frames[c] /\ SendDirectMessage(c, to, content))
             \/ (call[c].op = "direct" /\ call'[c] = NoCall))
              => /\ rooms' = rooms
                 /\ messages' = messages /\ accepted' = accepted
                 /\ clients' = clients /\ usernames' = usernames
                 /\ userIDs' = userIDs
         /\ ((\E roomID \in RoomIDs, content \in Contents, saveOK \in BOOLEAN :
                  frames'[c] /= frames[c] /\ SendRoomMessage(c, roomID, content, saveOK))
             \/ (call[c].op = "room" /\ call'[c] = NoCall))
              => /\ clients' = clients /\ usernames' = usernames
                 /\ userIDs' = userIDs
                 /\ Username' = Username /\ UserID' = UserID
                 /\ crooms' = crooms
                 /\ rooms' = rooms
    ]_vars

\* C16's case: a room message has been stored and delivered while a direct
\* message sits in a queue
C16_BothKindsSent ==
    /\ messages /= <<>>
    /\ \E o \in Clients : \E i \in 1..Len(Send[o]) : Send[o][i].type = "direct_message"
    /\ \E o \in Clients : \E i \in 1..Len(Send[o]) : Send[o][i].type = "room_message"

\* q is p with envelopes added at the tail
Extends(q, p) == Len(q) > Len(p) /\ SubSeq(q, 1, Len(p)) = p

\* C17: no queue ever holds more than sendBufferSize envelopes; a queue that
\* is full is left as it is by every send (only the writer takes its head),
\* a queue with room gets envelopes at its tail; a send that is dropped is
\* not reported to the sender; and the loop of SendRoomMessage is never
\* blocked: it runs to its end and appends the envelope to every recipient
\* with room, also when another recipient's queue is full.
C17_SendOrDrop ==
    [][\A c \in Clients :
         /\ Len(Send'[c]) <= sendBufferSize
         /\ Send'[c] /= Send[c] =>
              \/ Send[c] /= <<>> /\ Send'[c] = Tail(Send[c])
              \/ Len(Send[c]) < sendBufferSize /\ Extends(Send'[c], Send[c])
         /\ (call[c].op = "room" /\ ~panicked) => ENABLED SendRoomMessageFanOut(c)
         /\ MessageSendStep(c) => reply' = reply
         /\ RoomFanOutStep(c) =>
              /\ ~panicked'
              /\ \A s \in Clients :
                   (RoomSends(rooms[call[c].room], s) > 0
                      /\ Len(Send[s]) < sendBufferSize)
                     => Send'[s][Len(Send[s]) + 1] = call[c].env
    ]_vars

\* C17's case: the loop of a SendRoomMessage is about to run while one
\* recipient's queue is full and another recipient's queue has room
C17_FanOutWithFullRecipient ==
    \E c \in Clients, s \in Clients, o \in Clients :
        /\ call[c].op = "room"
        /\ RoomSends(rooms[call[c].room], s) > 0 /\ Len(Send[s]) = sendBufferSize
        /\ RoomSends(rooms[call[c].room], o) > 0 /\ Len(Send[o]) < sendBufferSize

\* C18: at every reachable state of the running process GetUserList has
\* exactly one entry per registered session of h.clients, carrying that
\* session's user id and username, and no other entry.
C18_UserListIsRegisteredSessions ==
    ~panicked =>
        GetUserList = {[Username |-> Username[s], UserID |-> UserID[s]] :
                          s \in {x \in clients : Username[x] /= ""}}

\* C19: for every connection c, GetRoomList(c) lists a room (once) exactly
\* when the room is in h.rooms and is public or has c's user as a member; a
\* private room is never listed to a caller whose user is not a member.
C19_RoomListVisibility ==
    \A c \in Clients, r \in RoomIDs :
        LET listed == {x \in GetRoomList(c) : x.RoomID = r}
            member == UserID[c] /= NoUserID /\ UserID[c] \in rooms[r].members
        IN  /\ Cardinality(listed) <= 1
            /\ listed /= {} <=> (rooms[r].present /\ (rooms[r].IsPublic \/ member))
            /\ \A x \in listed : x.IsPublic = rooms[r].IsPublic

\* C19's case: a private room exists that one registered session of
\* h.clients is a member of and another is not, besides the public room
C19_PrivateRoomHidden ==
    \E a \in clients, b \in clients, r \in RoomIDs :
        /\ rooms[r].present /\ ~rooms[r].IsPublic
        /\ Username[a] /= "" /\ UserID[a] \in rooms[r].members
        /\ Username[b] /= "" /\ UserID[b] \notin rooms[r].members
        /\ \E x \in GetRoomList(a) : x.RoomID = r
        /\ \E p \in RoomIDs : rooms[p].present /\ rooms[p].IsPublic

\* C20: a successful CreateRoom by a registered session inserts a new room
\* whose only member is the creator and adds the room to the creator's joined
\* rooms; the RoomCreated envelope is sent (Client.SendMessage) to every other
\* registered session of h.clients when the room is public, and no queue of
\* an unregistered session, and no queue at all for a private room, changes.
C20_CreateRoomEffect ==
    [][\A c \in Clients :
         frames'[c] /= frames[c] =>
           \A name \in RoomNames, isPublic \in BOOLEAN, createOK \in BOOLEAN :
             (CreateRoom(c, name, isPublic, createOK)
                /\ reply'[c].type = "room_created" /\ reply'[c].info = "ok")
             => LET id == reply'[c].room
                IN  /\ Username[c] /= ""
                    /\ ~rooms[id].present /\ rooms'[id].present
                    /\ rooms'[id].members = {UserID[c]}
                    /\ rooms'[id].IsPublic = isPublic
                    /\ \A r \in RoomIDs \ {id} : rooms'[r] = rooms[r]
                    /\ crooms' = [crooms EXCEPT ![c] = @ \cup {id}]
                    /\ \A s \in Clients :
                         Send'[s] = IF /\ isPublic /\ s /= c
                                       /\ s \in clients /\ Username[s] /= ""
                                    THEN SendMessage(Send[s], RoomCreated(id))
                                    ELSE Send[s]
    ]_vars

\* C20's case: a public room created during the run, its creator the only
\* member, and the RoomCreated envelope in the queue of the other registered
\* session
C20_PublicRoomAnnounced ==
    \E c \in clients, s \in clients :
        /\ s /= c /\ Username[c] /= "" /\ Username[s] /= ""
        /\ rooms[2].present /\ rooms[2].IsPublic
        /\ rooms[2].CreatorID = UserID[c] /\ rooms[2].members = {UserID[c]}
        /\ 2 \in crooms[c]
        /\ \E i \in 1..Len(Send[s]) : Send[s][i] = RoomCreated(2)

\* C21: a CreateRoom that fails leaves h.rooms, every session's joined rooms
\* and every outbound queue as they were (no RoomCreated broadcast); a failure
\* of the room store is answered INVALID_MESSAGE and stores nothing, and an
\* unregistered caller is answered NOT_REGISTERED without a store call.
C21_FailedCreateChangesNothing ==
    [][\A c \in Clients :
         frames'[c] /= frames[c] =>
           /\ (reply'[c].type = "room_created" /\ reply'[c].info /= "ok")
                => UNCHANGED <<rooms, crooms, Send, roomRows, memberRows,
                               nextRoomID>>
           /\ \A name \in RoomNames, isPublic \in BOOLEAN, createOK \in BOOLEAN :
                CreateRoom(c, name, isPublic, createOK) =>
                  /\ Username[c] = ""
                       => reply'[c] = RoomCreatedError("NOT_REGISTERED")
                  /\ (Username[c] /= "" /\ roomNameRegex(name) /\ ~createOK)
                       => reply'[c] = RoomCreatedError("INVALID_MESSAGE")
    ]_vars

\* C21's case: the store refused the room of a registered creator while
\* another registered session was attached
C21_StoreFailureAnswered ==
    \E c \in clients, s \in clients :
        /\ s /= c /\ Username[c] /= "" /\ Username[s] /= ""
        /\ reply[c] = RoomCreatedError("INVALID_MESSAGE")
        /\ ~rooms[2].present /\ crooms[c] = {}

\* the handler of c has returned from a successful h.JoinRoom(c, r)
JoinedStep(c, r) == frames'[c] /= frames[c] /\ reply'[c] = RoomJoined(r)

LeaveStep(c, r) ==
    /\ frames'[c] /= frames[c]
    /\ reply'[c].type = "room_left" /\ LeaveRoom(c, r)

\* C23: LeaveRoom of an unknown room fails with ROOM_NOT_FOUND and of a
\* non-member with NOT_IN_ROOM, both without any change to rooms, joined
\* rooms or queues; a successful LeaveRoom removes exactly the caller's user
\* id from that room's member set and keeps the room in h.rooms, also when the
\* creator or the last member leaves; a room with no member can be joined.
C23_LeaveKeepsRoom ==
    [][/\ \A c \in Clients, r \in RoomIDs :
            LeaveStep(c, r) =>
              IF ~rooms[r].present
              THEN /\ reply'[c] = RoomLeftError(r, "ROOM_NOT_FOUND")
                   /\ UNCHANGED <<rooms, crooms, Send, pending>>
              ELSE IF MemberID(c) \notin rooms[r].members
              THEN /\ reply'[c] = RoomLeftError(r, "NOT_IN_ROOM")
                   /\ UNCHANGED <<rooms, crooms, Send, pending>>
              ELSE /\ reply'[c] = RoomLeft(r)
                   /\ rooms'[r].present
                   /\ rooms'[r] = [rooms[r] EXCEPT !.members = @ \ {MemberID(c)}]
                   /\ \A o \in RoomIDs \ {r} : rooms'[o] = rooms[o]
       /\ \A r \in RoomIDs : rooms[r].present => rooms'[r].present
       /\ \A c \in Clients, r \in RoomIDs :
            (/\ rooms[r].present /\ rooms[r].members = {}
             /\ Serving /\ Idle(c) /\ frames[c] < MaxFrames /\ CanSpawn
             /\ Username[c] /= "")
              => ENABLED (JoinRoom(c, r) /\ reply'[c] = RoomJoined(r)
                          /\ rooms'[r].members = {MemberID(c)})
    ]_vars

\* C23's case: alice, creator and only member of room 1, has left it; the
\* room is still in h.rooms with no member while bob's session can send a
\* join
C23_EmptyRoomKept ==
    \E c \in Clients, d \in clients :
        /\ UserID[c] = 1 /\ reply[c] = RoomLeft(1)
        /\ rooms[1].present /\ rooms[1].CreatorID = 1 /\ rooms[1].members = {}
        /\ Username[d] = "bob" /\ Idle(d) /\ frames[d] < MaxFrames
        /\ Serving /\ CanSpawn

\* the handler of c has passed the checks of GetRoomHistory and is about to
\* query the message store
HistoryAccepted(c) == frames'[c] /= frames[c] /\ call'[c].op = "history"

\* C24: the limit GetRoomHistory queries with is 50 for a requested limit of
\* 0 or below, the requested limit itself from 1 to 100, and 100 for a
\* requested limit above 100.
C24_LimitClamped ==
    [][\A c \in Clients :
         HistoryAccepted(c) =>
           \A r \in RoomIDs, limit \in Limits, pBefore \in Befores :
             GetRoomHistory(c, r, limit, pBefore)
               => call'[c].limit = IF limit <= 0 THEN defaultHistoryLimit
                                   ELSE IF limit <= maxHistoryLimit THEN limit
                                   ELSE maxHistoryLimit
    ]_vars

\* the stored rows a history query of the room with the bound can return
HistoryRows(room, before) ==
    {i \in 1..Len(messages) :
        /\ messages[i].room_id = room
        /\ (before = ZeroTime \/ messages[i].created_at < before)}

\* C25: the history response to a member's query of room R with limit L and
\* bound `before` holds min(L, n) messages, n being the number of stored
\* messages of R with created_at < before (all of R's without a bound); they
\* are stored messages of R below the bound, none of the left-out ones is
\* newer than any returned one, they are ordered oldest first, and has_more
\* is true exactly when n > L.  The query is made only for a registered
\* member of the room; an unregistered caller gets NOT_REGISTERED and a
\* non-member NOT_IN_ROOM and no query is made for them (the refusals do not
\* depend on the limit and the bound, so one pair of them is tried).
C25_HistoryPage ==
    [][\A c \in Clients :
         /\ (call[c].op = "history" /\ reply'[c].type = "room_history_response")
              => LET L == call[c].limit
                     sel == HistoryRows(call[c].room, call[c].before)
                     n == Cardinality(sel)
                     out == reply'[c].messages
                 IN  /\ reply'[c].room = call[c].room
                     /\ Len(out) = IF L < n THEN L ELSE n
                     /\ reply'[c].has_more = (n > L)
                     /\ \A k \in 1..Len(out) :
                          \E i \in sel : out[k] = IncomingRoomMessage(messages[i])
                     /\ \A k \in 1..Len(out), j \in 1..Len(out) :
                          k < j => out[k].ts < out[j].ts
                     /\ \A i \in sel :
                          (\A k \in 1..Len(out) : out[k].mid /= messages[i].id)
                            => \A k \in 1..Len(out) :
                                  messages[i].created_at < out[k].ts
         /\ HistoryAccepted(c)
              => /\ Username[c] /= "" /\ reply'[c] = NoEnv
                 /\ rooms[call'[c].room].present
                 /\ MemberID(c) \in rooms[call'[c].room].members
         /\ frames'[c] /= frames[c] =>
              \A r \in RoomIDs :
                GetRoomHistory(c, r, 1, ZeroTime)
                  => /\ Username[c] = ""
                          => (reply'[c] = ErrorEnv("NOT_REGISTERED", "")
                              /\ call'[c] = NoCall)
                     /\ (Username[c] /= "" /\ rooms[r].present
                           /\ MemberID(c) \notin rooms[r].members)
                          => (reply'[c] = ErrorEnv("NOT_IN_ROOM", "")
                              /\ call'[c] = NoCall)
    ]_vars

\* C25's case: a page of two messages, oldest first, with has_more set, cut
\* out of a store that also holds a message of the other room
C25_PageWithMore ==
    \E c \in clients :
        /\ reply[c].type = "room_history_response"
        /\ reply[c].has_more
        /\ Len(reply[c].messages) = 2
        /\ reply[c].messages[1].ts < reply[c].messages[2].ts
        /\ \E i \in 1..Len(messages) : messages[i].room_id /= reply[c].room

\* the rooms a membership row or a message row of the store refers to
ReferencedRooms ==
    {m[1] : m \in memberRows} \cup {messages[i].room_id : i \in 1..Len(messages)}

\* C26: every membership row and every message row references an existing
\* room row; a step that deletes a room row leaves no membership row and no
\* message row of that room, and a step that deletes a user row deletes every
\* room row that user created, with its membership rows and its messages.
C26_RowsReferenceRooms ==
    /\ [](\A r \in ReferencedRooms : roomRows[r].present)
    /\ [][/\ \A r \in RoomIDs :
                roomRows[r].present /\ ~roomRows'[r].present
                    => r \notin ReferencedRooms'
          /\ \A id \in UserIDs :
                users[id].present /\ ~users'[id].present
                    => \A r \in RoomIDs :
                          roomRows[r].present /\ roomRows[r].creator_id = id
                              => /\ ~roomRows'[r].present
                                 /\ r \notin ReferencedRooms']_vars

\* alice's row and with it her room 1 are gone from the store while bob, his
\* room 2 and the two messages of room 2 are kept; the two messages of room 1
\* went with the room
C26_CreatorDeleted ==
    /\ cleanupPC = "idle"
    /\ ~users[1].present /\ users[2].present
    /\ ~roomRows[1].present /\ roomRows[2].present
    /\ accepted = 4
    /\ Len(messages) = 2
    /\ memberRows = {<<2, 2>>}

\* C27: cleanup ticks never overlap and each runs to completion, and on
\* shutdown the cleanup task has returned: once main has ended, no tick is
\* left between two of its store operations.
C27_TickCompletedAtShutdown == main = "exited" => cleanupPC = "idle"

\* the step in which the registration the handler of c was running succeeded
RegisterSucceeded(c) ==
    /\ reply[c] = NoEnv
    /\ reply'[c].type = "register_ack"
    /\ reply'[c].info \in {"new", "login"}

\* C28: a successful registration for a username that has no user record
\* creates the record and is answered is_new_user=true with a non-empty
\* recovery code; a record appears in no other way; as long as the record
\* exists every successful registration for the username is answered
\* is_new_user=false with an empty recovery code and binds the record's id.
C28_OneNewUserResult ==
    [][/\ \A c \in Clients :
            RegisterSucceeded(c) =>
                LET ack == reply'[c]
                    id == GetByUsername(ack.name)
                IN  /\ UserID'[c] = ack.uid
                    /\ users'[ack.uid].present
                    /\ users'[ack.uid].username = ack.name
                    /\ IF id = NoUserID
                       THEN /\ ack.info = "new"
                            /\ ack.phrase /= ""
                            /\ ~users[ack.uid].present
                       ELSE /\ ack.info = "login"
                            /\ ack.phrase = ""
                            /\ ack.uid = id
       /\ \A id \in UserIDs :
            /\ ~users[id].present /\ users'[id].present
                  => \E c \in Clients :
                        /\ RegisterSucceeded(c)
                        /\ reply'[c].info = "new"
                        /\ reply'[c].uid = id
            /\ users[id].present /\ users'[id].present
                  => users'[id].username = users[id].username]_vars

\* the connection that created alice's record has registered again with the
\* same credentials: the first answer, with the recovery code, is in its
\* queue and the second one is about to be sent
C28_SameConnectionAgain ==
    \E c \in Clients :
        /\ frames[c] = 2
        /\ Send[c] = <<RegisterAckOK(1, "alice", TRUE, "apple-arrow")>>
        /\ reply[c] = RegisterAckOK(1, "alice", FALSE, "")
        /\ users[1].present

\* the step in which connection c logged in to alice's account with the
\* valid recovery code and the fingerprint fp, which is not the stored one
RecoveryLogin(c, fp) ==
    /\ RegisterSucceeded(c)
    /\ GetByUsername("alice") /= NoUserID
    /\ users[GetByUsername("alice")].fingerprint_hash /= HashValue(fp)
    /\ \E writeOK \in BOOLEAN :
          RegisterUser(c, "alice", fp, "apple-arrow", TRUE, writeOK, "apple-arrow")

\* C29: after a successful recovery login with a valid recovery code and a
\* non-empty fingerprint F2 the stored fingerprint hash is the hash of F2,
\* and the recovery hash is the one it was.
C29_FingerprintRotated ==
    [][\A c \in Clients, F2 \in {"fpA", "fpX"} :
          RecoveryLogin(c, F2) =>
              LET id == GetByUsername("alice")
              IN  /\ users'[id].fingerprint_hash = HashValue(F2)
                  /\ users'[id].recovery_code_hash = users[id].recovery_code_hash]_vars

\* a live session holds the username: it is registered under it, or the
\* username index points at it
BoundToLiveSession(u) ==
    \E d \in clients : Username[d] = u \/ usernames[u] = d

\* C30: with no user store a registration of a valid username fails with
\* USERNAME_IN_USE exactly when the username is bound to a live session; a
\* username whose session RemoveClient has removed can be registered again.
C30_InUseIffLiveSession ==
    [][\A c \in Clients, u \in ValidUsernames :
          RegisterUserNoStore(c, u) =>
              (reply'[c] = RegisterAckError("USERNAME_IN_USE")
                  <=> BoundToLiveSession(u))]_vars

\* C33: an owner login kicks a session only if that session's current
\* username is the username being registered.
C33_KickedUnderOwnName ==
    [][\A d \in Clients :
          evicted'[d] /= evicted[d] => Username[d] = evicted'[d].name]_vars

\* C34: every entry of the reverse indices is live and accurate:
\* usernames[u] = cid implies cid is in the sessions index with Username u,
\* userIDs[id] = cid implies cid is in the sessions index with UserID id.
C34_IndicesLiveAndAccurate ==
    /\ \A u \in DOMAIN usernames :
          usernames[u] /= NoClient
              => usernames[u] \in clients /\ Username[usernames[u]] = u
    /\ \A id \in DOMAIN userIDs :
          userIDs[id] /= NoClient
              => userIDs[id] \in clients /\ UserID[userIDs[id]] = id

\* C35: no envelope is sent to a session whose outbound queue has been
\* closed: not by the handler of the session itself when it replies, not by
\* the send of a direct message, not by the fan-out of a room message.
C35_NoSendAfterClose ==
    [][\A c \in Clients :
          /\ (reply[c] /= NoEnv /\ reply'[c] = NoEnv) => ~closed[c]
          /\ (call[c].op = "direct" /\ call'[c] = NoCall) => ~closed[call[c].to]
          /\ (call[c].op = "room" /\ call'[c] = NoCall) =>
                \A id \in Clients :
                    RoomSends(rooms[call[c].room], id) > 0 => ~closed[id]]_vars

\* the session is no longer in h.clients (evicted or detached)
RemovedFromHub(c) == reader[c] /= "new" /\ c \notin clients

\* C36: once the hub has removed a session from h.clients, no request read
\* from its connection enqueues an envelope to another session, persists a
\* message or changes a room's membership.
C36_RemovedSessionIsInert ==
    [][\A c \in Clients :
          (RemovedFromHub(c)
           /\ (frames'[c] /= frames[c] \/ (call[c] /= NoCall /\ call'[c] = NoCall)))
              => /\ messages' = messages
                 /\ rooms' = rooms
                 /\ memberRows' = memberRows
                 /\ \A d \in Clients \ {c} : Send'[d] = Send[d]]_vars

\* C37: presence notifications track the index; in particular a UserLeft for
\* a username is enqueued only when no live session holds that username
\* afterwards.
C37_UserLeftMeansGone ==
    [][\A o \in Clients :
          \A i \in (Len(Send[o]) + 1)..Len(Send'[o]) :
              Send'[o][i].type = "user_left"
                  => ~\E d \in clients' : Username'[d] = Send'[o][i].name]_vars

\* the step in which the registration the handler of c was running failed
RegisterFailed(c) ==
    /\ reply[c] = NoEnv
    /\ reply'[c].type = "register_ack"
    /\ reply'[c].info \notin {"new", "login"}

\* C38: a RegisterUser call that returns an error leaves h.clients,
\* h.usernames, h.userIDs, every session's Username and UserID, the users
\* table and every session's queue unchanged: no user is created, nobody is
\* evicted, no store goroutine is started and nothing is broadcast.
C38_FailedRegisterChangesNothing ==
    [][\A c \in Clients :
          RegisterFailed(c) =>
              /\ reply'[c].info \in {"INVALID_USERNAME", "INVALID_MESSAGE",
                                     "INVALID_RECOVERY", "RECOVERY_REQUIRED",
                                     "USERNAME_IN_USE"}
              /\ clients' = clients /\ usernames' = usernames /\ userIDs' = userIDs
              /\ Username' = Username /\ UserID' = UserID
              /\ users' = users /\ nextUserID' = nextUserID /\ pending' = pending
              /\ Send' = Send /\ closed' = closed /\ evicted' = evicted
              /\ ~panicked']_vars

\* a connection tried alice's name with a wrong recovery code while alice is
\* online on another connection: it is refused and alice's session is still
\* bound and open
C38_RefusedWhileOwnerOnline ==
    \E c \in Clients, d \in Clients :
        /\ c /= d
        /\ reply[c] = RegisterAckError("INVALID_RECOVERY")
        /\ usernames["alice"] = d /\ d \in clients /\ ~closed[d]
        /\ Username[c] = ""

\* C39: Hub.CleanupInactiveRooms removes from h.rooms exactly the rooms that
\* no longer exist in the room store and keeps every room that still exists
\* there; if the delete or the following GetAll returns an error, no
\* in-memory room is removed.  So a failed delete changes no room, the sweep
\* of h.rooms keeps every room whose row is still stored whether or not
\* GetAll failed, and a sweep after a successful GetAll removes the others.
C39_SweepFollowsStore ==
    [][/\ CleanupInactiveRooms(FALSE) => rooms' = rooms
       /\ cleanupPC = "sweep" /\ cleanupPC' = "idle" =>
            \A r \in RoomIDs : roomRows[r].present => rooms'[r] = rooms[r]
       /\ CleanupInactiveRoomsSweep(TRUE) =>
            \A r \in RoomIDs : ~roomRows[r].present => rooms'[r] = NoRoom]_vars

\* the session has paged to the end: every envelope it received is a history
\* response and the last one says there is no more
PagingDone(c) ==
    /\ \A i \in 1..Len(Send[c]) : Send[c][i].type = "room_history_response"
    /\ IF Send[c] = <<>> THEN FALSE ELSE ~LastResponse(c).has_more

\* the positions of the messages the session received, page by page
PagedSlots(c) ==
    {s \in (1..sendBufferSize) \X (1..MaxStored) :
        s[1] <= Len(Send[c]) /\ s[2] <= Len(Send[c][s[1]].messages)}

\* C40: paging a room's history is complete and duplicate-free: starting with
\* no bound and requesting with `before` set to the timestamp of the oldest
\* message of the previous response until has_more is false returns every
\* stored message of the room exactly once, also when several messages have
\* the same created_at.
C40_PagingCompleteNoDuplicates ==
    \A c \in clients :
        PagingDone(c) =>
            /\ \A m \in 1..Len(messages) :
                   messages[m].room_id = 1 =>
                       \E s \in PagedSlots(c) :
                           Send[c][s[1]].messages[s[2]].mid = messages[m].id
            /\ \A s \in PagedSlots(c), t \in PagedSlots(c) :
                   s /= t => Send[c][s[1]].messages[s[2]].mid
                                 /= Send[c][t[1]].messages[t[2]].mid

\* C31: no hub operation (RegisterUser, CreateRoom, JoinRoom, LeaveRoom,
\* SendRoomMessage, GetRoomHistory, LoadRooms, CleanupInactiveRooms) invokes
\* a user, room, membership or message store operation while it holds the
\* hub's mutex, in shared or exclusive mode: a goroutine whose next call is a
\* store call does not hold h.mu.
C31_NoStoreCallUnderHubMutex ==
    \A g \in Goroutines :
        (mu[g].path /= <<>> /\ mu[g].path[1].e = "store")
            => \A l \in mu[g].held : l.m /= HubMu

\* g takes h.mu in the step
TakesHubMutex(g) == \E l \in mu'[g].held \ mu[g].held : l.m = HubMu

====
